---- MODULE Spec2Model ----
(***************************************************************************)
(* Screentime Guardian: the enforcement engine (internal/scheduler), the   *)
(* accounting store it writes to (internal/storage) and the extend-time    *)
(* and update-user operations of the API layer (internal/api).             *)
(*                                                                         *)
(* Time is counted in clock ticks, TicksPerSecond ticks to the second, so  *)
(* that the truncation of an elapsed duration to whole seconds is visible. *)
(* Tick 0 is local midnight of day 0.                                      *)
(***************************************************************************)
EXTENDS Integers, Sequences, FiniteSets, TLC

VARIABLES
    now,             \* wall clock read by time.Now(), in ticks
    users,           \* table users: id -> [Username, DailyLimitMins, Enabled]
    usage_log,       \* table usage_log: <<user_id, date>> -> used_seconds
    time_extensions, \* table time_extensions: sequence of ledger rows
    sessions,        \* logind: user names that have a session
    warningsSent,    \* Scheduler.warningsSent: username -> set of intervals
    activeSessions,  \* Scheduler.activeSessions: username -> start time
    lastCheck,       \* Scheduler.lastCheck
    runState,        \* position of Run: "idle", "running", "returned"
    stopClosed,      \* channel Scheduler.stop has been closed
    ctxDone,         \* the context passed to Run has been cancelled
    calls,           \* history: the dependency calls made by the latest step
    sent,            \* history: <<username, interval>> -> [date, count] of SendWarning
    failures,        \* history: failed calls that no later cycle has made up for yet
    pc,              \* goroutine -> the statement it is at (step-wise specifications)
    mu,              \* Scheduler.mu: the goroutine that holds it, "" when free
    frame,           \* goroutine -> the local variables of its call of check
    notifiers,       \* notifier.Chain.notifiers: the members, as what each returns
    ret              \* what the latest call of an operation got and returned

\* the goroutines' positions, the mutex and the locals of check
stepVars == <<pc, mu, frame>>

vars == <<now, users, usage_log, time_extensions, sessions, warningsSent,
          activeSessions, lastCheck, runState, stopClosed, ctxDone, calls, sent,
          failures, pc, mu, frame, notifiers, ret>>

----------------------------------------------------------------------------
(* Bounds of the model *)

TicksPerSecond == 2
\* the run starts StartBeforeMidnight seconds before the midnight that ends day 0
StartBeforeMidnight == 60
\* and is followed for HorizonAfterMidnight seconds of day 1
HorizonAfterMidnight == 61
MaxExtensions == 1
\* the ledger on its own: at most MaxGrants requests are stored
MaxGrants == 2
MaxFailures == 1
\* the store on its own: a day's usage stays within MaxUsedSeconds
MaxUsedSeconds == 185

(* Program constants *)

SecondsPerMinute == 60
MinutesPerHour == 60
HoursPerDay == 24
\* time.Time{} : the value of lastCheck that New leaves behind
ZeroTime == -1
\* now.Sub(time.Time{}) saturates at the largest Duration (about 292 years);
\* the model keeps a value of the same kind that fits a 32-bit integer
MaxDuration == 2000000000
\* config.Default: WarningIntervals []int{5, 1}
WarningIntervals == <<5, 1>>

Usernames == {"alice", "bob"}
\* ORDER BY username
NameOrder == <<"alice", "bob">>
UserIDs == {1, 2}
ExtendMinutes == {0, 1}
\* the store on its own: the limits, the seconds and the minutes of its calls
StoreLimits == {0, 1, 2, 3}
StoreSeconds == {59, 61}
StoreMinutes == {1, 2}

TicksPerDay == HoursPerDay * MinutesPerHour * SecondsPerMinute * TicksPerSecond
StartTime == TicksPerDay - StartBeforeMidnight * TicksPerSecond
MaxNow == TicksPerDay + HorizonAfterMidnight * TicksPerSecond
\* between two readings the clock advances by half a minute and one tick, or
\* by a minute and a half
Deltas == {30 * TicksPerSecond + 1, 90 * TicksPerSecond}

----------------------------------------------------------------------------
(* package time *)

SecondOfDay(t) == (t % TicksPerDay) \div TicksPerSecond
Hour(t) == SecondOfDay(t) \div (MinutesPerHour * SecondsPerMinute)
Minute(t) == (SecondOfDay(t) % (MinutesPerHour * SecondsPerMinute)) \div SecondsPerMinute
\* time.Now().Format("2006-01-02"): the calendar day
Today(t) == t \div TicksPerDay
\* now.Sub(lastCheck)
Sub(t, u) == IF u = ZeroTime THEN MaxDuration ELSE t - u
\* a conversion that rounds a started second up
Seconds_RoundUp(d) == (d + TicksPerSecond - 1) \div TicksPerSecond

\* int(elapsed.Seconds())
Seconds(d) == d \div TicksPerSecond

----------------------------------------------------------------------------
(* package storage *)

RECURSIVE SumMinutes(_, _, _)
SumMinutes(ledger, userID, date) ==
    IF ledger = <<>> THEN 0
    ELSE LET row == Head(ledger)
         IN  (IF row.user_id = userID /\ row.date = date THEN row.minutes ELSE 0)
             + SumMinutes(Tail(ledger), userID, date)

\* an upsert that replaces the seconds of the day's record
AddUsageTime_Overwrite(log, userID, seconds, t) ==
    LET key == <<userID, Today(t)>>
    IN  [k \in DOMAIN log \cup {key} |-> IF k = key THEN seconds ELSE log[k]]

AddUsageTime(log, userID, seconds, t) ==
    LET key == <<userID, Today(t)>>
    IN  [k \in DOMAIN log \cup {key} |->
            IF k = key
            THEN IF key \in DOMAIN log THEN log[key] + seconds ELSE seconds
            ELSE log[k]]

GetTodayUsageSeconds(log, userID, t) ==
    IF <<userID, Today(t)>> \in DOMAIN log THEN log[<<userID, Today(t)>>] ELSE 0

AddTimeExtension(ledger, userID, minutes, grantedBy, t) ==
    Append(ledger, [user_id |-> userID, date |-> Today(t),
                    minutes |-> minutes, granted_by |-> grantedBy])

\* a GetTodayExtensions that counts the extensions of the day before as well
GetTodayExtensions_WithYesterday(ledger, userID, t) ==
    SumMinutes(ledger, userID, Today(t)) + SumMinutes(ledger, userID, Today(t) - 1)

GetTodayExtensions(ledger, userID, t) == SumMinutes(ledger, userID, Today(t))

\* GetRemainingMinutes without its clamp at zero
GetRemainingMinutes_NoClamp(tbl, log, ledger, userID, t) ==
    IF userID \notin DOMAIN tbl THEN 0
    ELSE tbl[userID].DailyLimitMins + GetTodayExtensions(ledger, userID, t)
         - (GetTodayUsageSeconds(log, userID, t) \div SecondsPerMinute)

GetRemainingMinutes(tbl, log, ledger, userID, t) ==
    IF userID \notin DOMAIN tbl THEN 0
    ELSE LET usedSeconds == GetTodayUsageSeconds(log, userID, t)
             extensions == GetTodayExtensions(ledger, userID, t)
             totalLimitMins == tbl[userID].DailyLimitMins + extensions
             usedMins == usedSeconds \div SecondsPerMinute
             remaining == totalLimitMins - usedMins
         IN  IF remaining < 0 THEN 0 ELSE remaining

UpdateUser(tbl, id, dailyLimitMins, enabled) ==
    IF id \in DOMAIN tbl
    THEN [tbl EXCEPT ![id].DailyLimitMins = dailyLimitMins, ![id].Enabled = enabled]
    ELSE tbl

\* the ids of the rows of users, ordered by username
RECURSIVE ListUsersFrom(_, _)
ListUsersFrom(tbl, names) ==
    IF names = <<>> THEN <<>>
    ELSE LET ids == {id \in DOMAIN tbl : tbl[id].Username = Head(names)}
         IN  (IF ids = {} THEN <<>> ELSE <<CHOOSE id \in ids : TRUE>>)
             \o ListUsersFrom(tbl, Tail(names))

ListUsers(tbl) == ListUsersFrom(tbl, NameOrder)

----------------------------------------------------------------------------
(* Failures of the dependencies: a set of <<operation, username>> points    *)
(* at which the call of this operation returns an error. The calls that a   *)
(* cycle makes for a user are made for enabled users with a session only.   *)

FailPoints(tbl) ==
    {<<"ListUsers", "">>, <<"ListSessions", "">>}
    \cup ({"AddUsageTime", "GetRemainingMinutes", "SendLockNotice",
           "SendWarning", "LockUserSessions"}
          \X ({tbl[id].Username : id \in {i \in DOMAIN tbl : tbl[i].Enabled}}
              \cap sessions))

FailureSets(tbl) == {F \in SUBSET FailPoints(tbl) : Cardinality(F) <= MaxFailures}

Call(op, user, arg, interval, ok) ==
    [op |-> op, user |-> user, arg |-> arg, interval |-> interval, ok |-> ok]

----------------------------------------------------------------------------
(* package scheduler *)

\* no operation has returned anything yet
NoReturn == [op |-> ""]

\* the goroutines of the host: the one in Run, a caller of ForceCheck, the
\* caller of Stop
Goroutines == {"run", "force", "stop"}

\* the locals of check before check is entered: now, elapsed, the set of
\* logged-in names, the position in the user list, remaining, the position in
\* the warning intervals; users is the slice that ListUsers returned; credited
\* is history, the seconds the call has added
NoFrame == [now |-> ZeroTime, elapsed |-> 0, users |-> << >>, loggedIn |-> {},
            user |-> 0, remaining |-> 0, i |-> 0, credited |-> 0]

\* the state a check cycle works on: the usage table, the two maps of the
\* scheduler and the two history variables
CycleState(log, act, ws, cs, sn) ==
    [log |-> log, act |-> act, ws |-> ws, calls |-> cs, sent |-> sn]

\* history: one more SendWarning for <<username, interval>> on the day of t
CountWarning(sn, username, interval, t) ==
    LET old == sn[<<username, interval>>]
        n == IF old.date = Today(t) THEN old.count + 1 ELSE 1
    IN  [sn EXCEPT ![<<username, interval>>] =
            [date |-> Today(t), count |-> IF n > 2 THEN 2 ELSE n]]

\* history: the count of username's warnings starts again
ForgetWarnings(sn, username) ==
    [k \in DOMAIN sn |-> IF k[1] = username THEN [date |-> sn[k].date, count |-> 0]
                                            ELSE sn[k]]

\* warningsSent[username][interval]
WarningSent(ws, username, interval) ==
    username \in DOMAIN ws /\ interval \in ws[username]

\* Scheduler.checkWarnings: the loop over config.WarningIntervals from index i
RECURSIVE WarningLoop(_, _, _, _, _, _)
WarningLoop(st, username, remaining, i, t, F) ==
    IF i > Len(WarningIntervals) THEN st
    ELSE LET interval == WarningIntervals[i]
         IN  IF remaining <= interval /\ ~WarningSent(st.ws, username, interval)
             THEN WarningLoop(
                    [st EXCEPT
                        !.calls = Append(@, Call("SendWarning", username, remaining, interval,
                                                 <<"SendWarning", username>> \notin F)),
                        !.sent = CountWarning(@, username, interval, t),
                        !.ws[username] = @ \cup {interval}],
                    username, remaining, i + 1, t, F)
             ELSE WarningLoop(st, username, remaining, i + 1, t, F)

\* a checkWarnings that sends the warnings and marks none of them
checkWarnings_NoMark(st, username, remaining, t, F) ==
    LET ws1 == IF username \in DOMAIN st.ws THEN st.ws
               ELSE [u \in DOMAIN st.ws \cup {username} |->
                        IF u = username THEN {} ELSE st.ws[u]]
        st1 == WarningLoop([st EXCEPT !.ws = ws1], username, remaining, 1, t, F)
    IN  [st1 EXCEPT !.ws = ws1]

\* a checkWarnings that forgets what it sent to the user in earlier cycles
checkWarnings_NoDedup(st, username, remaining, t, F) ==
    LET ws1 == [u \in DOMAIN st.ws \cup {username} |->
                  IF u = username THEN {} ELSE st.ws[u]]
    IN  WarningLoop([st EXCEPT !.ws = ws1], username, remaining, 1, t, F)

checkWarnings(st, username, remaining, t, F) ==
    LET ws1 == IF username \in DOMAIN st.ws THEN st.ws
               ELSE [u \in DOMAIN st.ws \cup {username} |->
                        IF u = username THEN {} ELSE st.ws[u]]
    IN  WarningLoop([st EXCEPT !.ws = ws1], username, remaining, 1, t, F)

\* handleTimeExpired giving up when the lock notice could not be sent
handleTimeExpired_ReturnOnNoticeError(st, username, F) ==
    IF <<"SendLockNotice", username>> \in F
    THEN [st EXCEPT !.calls = Append(@, Call("SendLockNotice", username, 0, 0, FALSE))]
    ELSE [st EXCEPT !.calls = @ \o
            << Call("SendLockNotice", username, 0, 0, TRUE),
               Call("Sleep", username, 3, 0, TRUE),
               Call("LockUserSessions", username, 0, 0,
                    <<"LockUserSessions", username>> \notin F) >>]

\* handleTimeExpired calling LockUserSessions once more when it failed
handleTimeExpired_RetryLock(st, username, F) ==
    [st EXCEPT !.calls = @ \o
        << Call("SendLockNotice", username, 0, 0, <<"SendLockNotice", username>> \notin F),
           Call("Sleep", username, 3, 0, TRUE),
           Call("LockUserSessions", username, 0, 0, <<"LockUserSessions", username>> \notin F) >>
        \o IF <<"LockUserSessions", username>> \in F
           THEN << Call("LockUserSessions", username, 0, 0, TRUE) >>
           ELSE << >>]

\* Scheduler.handleTimeExpired; the grace delay is recorded as a call, the
\* clock of the model moves in Advance only
handleTimeExpired(st, username, F) ==
    [st EXCEPT !.calls = @ \o
        << Call("SendLockNotice", username, 0, 0, <<"SendLockNotice", username>> \notin F),
           Call("Sleep", username, 3, 0, TRUE),
           Call("LockUserSessions", username, 0, 0, <<"LockUserSessions", username>> \notin F) >>]

\* the loop of check without its test of the enabled flag
IsTracked_Always(user) == TRUE

\* Scheduler.check: if !user.Enabled { continue }
IsTracked(user) == user.Enabled

\* the accrual step crediting every enabled user, logged in or not
TrackSession_AccrueLoggedOut(st, id, name, isLoggedIn, elapsed, t, F) ==
    IF elapsed > 0
    THEN LET act1 == IF name \in DOMAIN st.act THEN st.act
                     ELSE [u \in DOMAIN st.act \cup {name} |->
                             IF u = name THEN t ELSE st.act[u]]
             seconds == Seconds(elapsed)
             ok == <<"AddUsageTime", name>> \notin F
         IN  [st EXCEPT
                 !.act = act1,
                 !.calls = Append(@, Call("AddUsageTime", name, seconds, 0, ok)),
                 !.log = IF ok THEN AddUsageTime(@, id, seconds, t) ELSE @]
    ELSE st

\* the accrual step without the test of elapsed > 0
TrackSession_NoElapsedTest(st, id, name, isLoggedIn, elapsed, t, F) ==
    IF isLoggedIn
    THEN LET act1 == IF name \in DOMAIN st.act THEN st.act
                     ELSE [u \in DOMAIN st.act \cup {name} |->
                             IF u = name THEN t ELSE st.act[u]]
             seconds == Seconds(elapsed)
             ok == <<"AddUsageTime", name>> \notin F
         IN  [st EXCEPT
                 !.act = act1,
                 !.calls = Append(@, Call("AddUsageTime", name, seconds, 0, ok)),
                 !.log = IF ok THEN AddUsageTime(@, id, seconds, t) ELSE @]
    ELSE [st EXCEPT !.act = [u \in DOMAIN st.act \ {name} |-> st.act[u]]]

\* the accrual step crediting the time since the start of the session that
\* the Active-Session map holds
TrackSession_CreditSinceStart(st, id, name, isLoggedIn, elapsed, t, F) ==
    IF isLoggedIn /\ elapsed > 0
    THEN LET act1 == IF name \in DOMAIN st.act THEN st.act
                     ELSE [u \in DOMAIN st.act \cup {name} |->
                             IF u = name THEN t ELSE st.act[u]]
             seconds == IF name \in DOMAIN st.act THEN Seconds(t - st.act[name])
                        ELSE Seconds(elapsed)
             ok == <<"AddUsageTime", name>> \notin F
         IN  [st EXCEPT
                 !.act = act1,
                 !.calls = Append(@, Call("AddUsageTime", name, seconds, 0, ok)),
                 !.log = IF ok THEN AddUsageTime(@, id, seconds, t) ELSE @]
    ELSE IF ~isLoggedIn
    THEN [st EXCEPT !.act = [u \in DOMAIN st.act \ {name} |-> st.act[u]]]
    ELSE st

\* Scheduler.check: if isLoggedIn && elapsed > 0 { ... } else if !isLoggedIn { ... }
TrackSession(st, id, name, isLoggedIn, elapsed, t, F) ==
    IF isLoggedIn /\ elapsed > 0
    THEN LET act1 == IF name \in DOMAIN st.act THEN st.act
                     ELSE [u \in DOMAIN st.act \cup {name} |->
                             IF u = name THEN t ELSE st.act[u]]
             seconds == Seconds(elapsed)
             ok == <<"AddUsageTime", name>> \notin F
         IN  [st EXCEPT
                 !.act = act1,
                 !.calls = Append(@, Call("AddUsageTime", name, seconds, 0, ok)),
                 !.log = IF ok THEN AddUsageTime(@, id, seconds, t) ELSE @]
    ELSE IF ~isLoggedIn
    THEN [st EXCEPT !.act = [u \in DOMAIN st.act \ {name} |-> st.act[u]]]
    ELSE st

\* a check that goes on to the warning evaluation after the time-expired path
Enforce_WarnWhenExpired(st, tbl, ledger, id, name, t, F) ==
    IF <<"GetRemainingMinutes", name>> \in F
    THEN [st EXCEPT !.calls = Append(@, Call("GetRemainingMinutes", name, 0, 0, FALSE))]
    ELSE LET remaining == GetRemainingMinutes(tbl, st.log, ledger, id, t)
             st2 == [st EXCEPT !.calls =
                        Append(@, Call("GetRemainingMinutes", name, remaining, 0, TRUE))]
         IN  IF remaining <= 0
             THEN checkWarnings(handleTimeExpired(st2, name, F), name, remaining, t, F)
             ELSE checkWarnings(st2, name, remaining, t, F)

\* Scheduler.check: the remaining budget of a logged-in user and what follows
Enforce(st, tbl, ledger, id, name, t, F) ==
    IF <<"GetRemainingMinutes", name>> \in F
    THEN [st EXCEPT !.calls = Append(@, Call("GetRemainingMinutes", name, 0, 0, FALSE))]
    ELSE LET remaining == GetRemainingMinutes(tbl, st.log, ledger, id, t)
             st2 == [st EXCEPT !.calls =
                        Append(@, Call("GetRemainingMinutes", name, remaining, 0, TRUE))]
         IN  IF remaining <= 0 THEN handleTimeExpired(st2, name, F)
             ELSE checkWarnings(st2, name, remaining, t, F)

\* a loop over the users that is left at the first call that failed
CheckUser_SkipAfterFailure(st, tbl, ledger, id, loggedIn, elapsed, t, F) ==
    LET user == tbl[id]
        name == user.Username
        isLoggedIn == name \in loggedIn
    IN  IF \E i \in DOMAIN st.calls : ~st.calls[i].ok THEN st
        ELSE IF ~IsTracked(user) THEN st
        ELSE LET st1 == TrackSession(st, id, name, isLoggedIn, elapsed, t, F)
             IN  IF ~isLoggedIn THEN st1
                 ELSE Enforce(st1, tbl, ledger, id, name, t, F)

\* a loop over the users that credits nothing to a user whose budget is used up
CheckUser_NoAccrualWhenExpired(st, tbl, ledger, id, loggedIn, elapsed, t, F) ==
    LET user == tbl[id]
        name == user.Username
        isLoggedIn == name \in loggedIn
    IN  IF ~IsTracked(user) THEN st
        ELSE LET st1 == IF GetRemainingMinutes(tbl, st.log, ledger, id, t) = 0
                        THEN TrackSession(st, id, name, isLoggedIn, 0, t, F)
                        ELSE TrackSession(st, id, name, isLoggedIn, elapsed, t, F)
             IN  IF ~isLoggedIn THEN st1
                 ELSE Enforce(st1, tbl, ledger, id, name, t, F)

\* Scheduler.check: the body of the loop over the users, for one user
CheckUser(st, tbl, ledger, id, loggedIn, elapsed, t, F) ==
    LET user == tbl[id]
        name == user.Username
        isLoggedIn == name \in loggedIn
    IN  IF ~IsTracked(user) THEN st
        ELSE LET st1 == TrackSession(st, id, name, isLoggedIn, elapsed, t, F)
             IN  IF ~isLoggedIn THEN st1
                 ELSE Enforce(st1, tbl, ledger, id, name, t, F)

RECURSIVE CheckUsers(_, _, _, _, _, _, _, _)
CheckUsers(st, tbl, ledger, ids, loggedIn, elapsed, t, F) ==
    IF ids = <<>> THEN st
    ELSE CheckUsers(CheckUser(st, tbl, ledger, Head(ids), loggedIn, elapsed, t, F),
                    tbl, ledger, Tail(ids), loggedIn, elapsed, t, F)

\* if now.Hour() == 0 && now.Minute() < 1 { s.warningsSent = make(...) }
MidnightReset(ws, t) == IF Hour(t) = 0 /\ Minute(t) < 1 THEN << >> ELSE ws

\* history: the budget of the day of t, the daily limit plus the extensions
DayBudget(tbl, ledger, username, t) ==
    LET ids == {id \in DOMAIN tbl : tbl[id].Username = username}
    IN  IF ids = {} THEN 0
        ELSE LET id == CHOOSE x \in ids : TRUE
             IN  tbl[id].DailyLimitMins + GetTodayExtensions(ledger, id, t)

\* history: a failed call, remembered with its day, the user's budget of that
\* day and the number of cycles in a row in which it failed (2 for more)
Failure(op, user, interval, t, budget, tries) ==
    [op |-> op, user |-> user, interval |-> interval, date |-> Today(t),
     budget |-> budget, tries |-> tries]

\* history: a user's failed lock is forgotten by the next cycle that finds the
\* user enabled and logged in, a failed warning when its day is over; the failed
\* LockUserSessions and SendWarning calls of the cycle cs are added
RecordFailures(fl, cs, tbl, loggedIn, ledger, t) ==
    LET again == {tbl[id].Username : id \in {i \in DOMAIN tbl : tbl[i].Enabled}}
                     \cap loggedIn
        kept == {f \in fl : IF f.op = "LockUserSessions" THEN f.user \notin again
                                                        ELSE f.date = Today(t)}
        before(c) == {f \in fl : f.op = c.op /\ f.user = c.user /\ f.interval = c.interval}
        new == {Failure(cs[i].op, cs[i].user, cs[i].interval, t,
                        DayBudget(tbl, ledger, cs[i].user, t),
                        IF before(cs[i]) = {} THEN 1 ELSE 2) :
                   i \in {j \in 1..Len(cs) :
                             /\ cs[j].op \in {"LockUserSessions", "SendWarning"}
                             /\ ~cs[j].ok}}
    IN  {f \in kept : \A n \in new : ~(f.op = n.op /\ f.user = n.user
                                        /\ f.interval = n.interval)} \cup new

\* history: the failed warnings of a user whose dedup set is cleared on request
ForgetFailedWarnings(fl, username) ==
    {f \in fl : ~(f.op = "SendWarning" /\ f.user = username)}

\* Scheduler.check, with the dependencies failing at the points of F
check(F) ==
    LET elapsed == Sub(now, lastCheck)
        ws0 == MidnightReset(warningsSent, now)
        st0 == CycleState(usage_log, activeSessions, ws0, <<>>, sent)
        stU == [st0 EXCEPT !.calls = Append(@, Call("ListUsers", "", 0, 0,
                                                    <<"ListUsers", "">> \notin F))]
        stS == [stU EXCEPT !.calls = Append(@, Call("ListSessions", "", 0, 0,
                                                    <<"ListSessions", "">> \notin F))]
        st == IF <<"ListUsers", "">> \in F THEN stU
              ELSE IF <<"ListSessions", "">> \in F THEN stS
              ELSE CheckUsers(stS, users, time_extensions, ListUsers(users),
                              sessions, elapsed, now, F)
    IN  /\ lastCheck' = now
        /\ usage_log' = st.log
        /\ activeSessions' = st.act
        /\ warningsSent' = st.ws
        /\ calls' = st.calls
        /\ sent' = st.sent
        /\ failures' = RecordFailures(failures, st.calls, users, sessions,
                                      time_extensions, now)
        /\ UNCHANGED <<now, users, time_extensions, sessions, pc, mu, frame,
                   notifiers, ret>>

\* a ResetWarnings that clears the warning state of every user
ResetWarnings_ClearAll(username) ==
    /\ warningsSent' = << >>
    /\ sent' = ForgetWarnings(sent, username)
    /\ failures' = ForgetFailedWarnings(failures, username)
    /\ calls' = <<>>
    /\ UNCHANGED <<now, users, usage_log, time_extensions, sessions, activeSessions,
                   lastCheck, runState, stopClosed, ctxDone, pc, mu, frame,
                   notifiers, ret>>

\* Scheduler.ResetWarnings
ResetWarnings(username) ==
    /\ warningsSent' = [u \in DOMAIN warningsSent \ {username} |-> warningsSent[u]]
    /\ sent' = ForgetWarnings(sent, username)
    /\ failures' = ForgetFailedWarnings(failures, username)
    /\ calls' = <<>>
    /\ UNCHANGED <<now, users, usage_log, time_extensions, sessions, activeSessions,
                   lastCheck, runState, stopClosed, ctxDone, pc, mu, frame,
                   notifiers, ret>>

\* a Run that looks at its signals before the first check
RunStart_ObserveSignals(F) ==
    /\ runState = "idle"
    /\ IF stopClosed \/ ctxDone
       THEN /\ runState' = "returned"
            /\ calls' = <<>>
            /\ UNCHANGED <<now, users, usage_log, time_extensions, sessions,
                           warningsSent, activeSessions, lastCheck, sent, failures,
                           pc, mu, frame>>
       ELSE /\ check(F)
            /\ runState' = "running"
    /\ UNCHANGED <<stopClosed, ctxDone,
                   notifiers, ret>>

\* Scheduler.Run up to the loop: the immediate check
RunStart(F) ==
    /\ runState = "idle"
    /\ check(F)
    /\ runState' = "running"
    /\ UNCHANGED <<stopClosed, ctxDone,
                   notifiers, ret>>

\* a loop that gives up when a dependency of the cycle failed
RunTick_ReturnOnError(F) ==
    /\ runState = "running"
    /\ now > lastCheck
    /\ check(F)
    /\ runState' = IF F = {} THEN "running" ELSE "returned"
    /\ UNCHANGED <<stopClosed, ctxDone,
                   notifiers, ret>>

\* the select of Run, case <-ticker.C
RunTick(F) ==
    /\ runState = "running"
    /\ now > lastCheck
    /\ check(F)
    /\ UNCHANGED <<runState, stopClosed, ctxDone>>

\* the select of Run, case <-s.stop
RunStop ==
    /\ runState = "running"
    /\ stopClosed
    /\ runState' = "returned"
    /\ calls' = <<>>
    /\ UNCHANGED <<now, users, usage_log, time_extensions, sessions, warningsSent,
                   activeSessions, lastCheck, stopClosed, ctxDone, sent,
                   failures, pc, mu, frame,
                   notifiers, ret>>

\* the select of Run, case <-ctx.Done()
RunCancel ==
    /\ runState = "running"
    /\ ctxDone
    /\ runState' = "returned"
    /\ calls' = <<>>
    /\ UNCHANGED <<now, users, usage_log, time_extensions, sessions, warningsSent,
                   activeSessions, lastCheck, stopClosed, ctxDone, sent,
                   failures, pc, mu, frame,
                   notifiers, ret>>

\* a Stop that returns at once when Run has not been started
Stop_ReturnIfNotStarted ==
    /\ ~stopClosed
    /\ pc["stop"] = "idle"
    /\ stopClosed' = TRUE
    /\ pc' = [pc EXCEPT !["stop"] = IF runState = "idle" THEN "returned"
                                                         ELSE "waiting"]
    /\ calls' = <<>>
    /\ UNCHANGED <<now, users, usage_log, time_extensions, sessions, warningsSent,
                   activeSessions, lastCheck, runState, ctxDone, sent, failures,
                   mu, frame,
                   notifiers, ret>>

\* Scheduler.Stop up to its wait: close(s.stop)
Stop ==
    /\ ~stopClosed
    /\ pc["stop"] = "idle"
    /\ stopClosed' = TRUE
    /\ pc' = [pc EXCEPT !["stop"] = "waiting"]
    /\ calls' = <<>>
    /\ UNCHANGED <<now, users, usage_log, time_extensions, sessions, warningsSent,
                   activeSessions, lastCheck, runState, ctxDone, sent, failures,
                   mu, frame,
                   notifiers, ret>>

\* a Stop that does not wait for Run
StopReturn_NoWait ==
    /\ pc["stop"] = "waiting"
    /\ pc' = [pc EXCEPT !["stop"] = "returned"]
    /\ calls' = <<>>
    /\ UNCHANGED <<now, users, usage_log, time_extensions, sessions, warningsSent,
                   activeSessions, lastCheck, runState, stopClosed, ctxDone, sent,
                   failures, mu, frame,
                   notifiers, ret>>

\* Scheduler.Stop, its wait: <-s.done, which Run closes when it returns
StopReturn ==
    /\ pc["stop"] = "waiting"
    /\ runState = "returned"
    /\ pc' = [pc EXCEPT !["stop"] = "returned"]
    /\ calls' = <<>>
    /\ UNCHANGED <<now, users, usage_log, time_extensions, sessions, warningsSent,
                   activeSessions, lastCheck, runState, stopClosed, ctxDone, sent,
                   failures, mu, frame,
                   notifiers, ret>>

\* the host cancels the context it passed to Run
Cancel ==
    /\ ~ctxDone
    /\ ctxDone' = TRUE
    /\ calls' = <<>>
    /\ UNCHANGED <<now, users, usage_log, time_extensions, sessions, warningsSent,
                   activeSessions, lastCheck, runState, stopClosed, sent,
                   failures, pc, mu, frame,
                   notifiers, ret>>

----------------------------------------------------------------------------
(* package api *)

\* an extend-time handler that stores whatever minutes it is given
apiExtendTime_Unvalidated(id, minutes, stored) ==
    /\ IF id \notin DOMAIN users
       THEN /\ calls' = <<>>
            /\ UNCHANGED <<time_extensions, sent, failures>>
       ELSE IF ~stored
       THEN /\ calls' = << Call("AddTimeExtension", users[id].Username, minutes, 0, FALSE) >>
            /\ UNCHANGED <<time_extensions, sent, failures>>
       ELSE /\ time_extensions' = AddTimeExtension(time_extensions, id, minutes, "parent", now)
            /\ calls' = << Call("AddTimeExtension", users[id].Username, minutes, 0, TRUE),
                           Call("SendTimeExtended", users[id].Username, minutes, 0, TRUE) >>
            /\ sent' = ForgetWarnings(sent, users[id].Username)
            /\ failures' = ForgetFailedWarnings(failures, users[id].Username)
    /\ UNCHANGED <<now, users, usage_log, sessions, warningsSent, activeSessions,
                   lastCheck, runState, stopClosed, ctxDone, pc, mu, frame,
                   notifiers, ret>>

\* Server.apiExtendTime with the id and the minutes of the request; stored
\* tells whether the insert of storage.AddTimeExtension succeeds
apiExtendTime(id, minutes, stored) ==
    /\ IF minutes <= 0 \/ id \notin DOMAIN users
       THEN /\ calls' = <<>>
            /\ UNCHANGED <<time_extensions, sent, failures>>
       ELSE IF ~stored
       THEN /\ calls' = << Call("AddTimeExtension", users[id].Username, minutes, 0, FALSE) >>
            /\ UNCHANGED <<time_extensions, sent, failures>>
       ELSE /\ time_extensions' = AddTimeExtension(time_extensions, id, minutes, "parent", now)
            /\ calls' = << Call("AddTimeExtension", users[id].Username, minutes, 0, TRUE),
                           Call("SendTimeExtended", users[id].Username, minutes, 0, TRUE) >>
            /\ sent' = ForgetWarnings(sent, users[id].Username)
            /\ failures' = ForgetFailedWarnings(failures, users[id].Username)
    /\ UNCHANGED <<now, users, usage_log, sessions, warningsSent, activeSessions,
                   lastCheck, runState, stopClosed, ctxDone, pc, mu, frame,
                   notifiers, ret>>

\* Server.apiUpdateUser
apiUpdateUser(id, dailyLimitMins, enabled) ==
    /\ users' = UpdateUser(users, id, dailyLimitMins, enabled)
    /\ calls' = <<>>
    /\ UNCHANGED <<now, usage_log, time_extensions, sessions, warningsSent,
                   activeSessions, lastCheck, runState, stopClosed, ctxDone, sent,
                   failures, pc, mu, frame,
                   notifiers, ret>>

----------------------------------------------------------------------------
(* the environment *)

\* time passes between two readings of the clock by the scheduler
Advance(d) ==
    /\ lastCheck = ZeroTime \/ now = lastCheck
    /\ now + d <= MaxNow
    /\ now' = now + d
    /\ calls' = <<>>
    /\ UNCHANGED <<users, usage_log, time_extensions, sessions, warningsSent,
                   activeSessions, lastCheck, runState, stopClosed, ctxDone, sent,
                   failures, pc, mu, frame,
                   notifiers, ret>>

\* a user opens a session
Login(username) ==
    /\ username \notin sessions
    /\ sessions' = sessions \cup {username}
    /\ calls' = <<>>
    /\ UNCHANGED <<now, users, usage_log, time_extensions, warningsSent,
                   activeSessions, lastCheck, runState, stopClosed, ctxDone, sent,
                   failures, pc, mu, frame,
                   notifiers, ret>>

\* a user's session ends
Logout(username) ==
    /\ username \in sessions
    /\ sessions' = sessions \ {username}
    /\ calls' = <<>>
    /\ UNCHANGED <<now, users, usage_log, time_extensions, warningsSent,
                   activeSessions, lastCheck, runState, stopClosed, ctxDone, sent,
                   failures, pc, mu, frame,
                   notifiers, ret>>

----------------------------------------------------------------------------

\* New, on a store that holds alice (the child, 2 minutes a day) and bob (an
\* account whose tracking is switched off), before Run is started
Init ==
    /\ now = StartTime
    /\ users = [id \in UserIDs |->
                  [Username |-> NameOrder[id],
                   DailyLimitMins |-> IF id = 1 THEN 2 ELSE 6,
                   Enabled |-> (id = 1)]]
    /\ usage_log = << >>
    /\ time_extensions = << >>
    /\ sessions = {}
    /\ warningsSent = << >>
    /\ activeSessions = << >>
    /\ lastCheck = ZeroTime
    /\ runState = "idle"
    /\ stopClosed = FALSE
    /\ ctxDone = FALSE
    /\ calls = << >>
    /\ sent = [k \in Usernames \X {WarningIntervals[i] : i \in 1..Len(WarningIntervals)} |->
                  [date |-> 0, count |-> 0]]
    /\ failures = {}
    /\ pc = [g \in Goroutines |-> "idle"]
    /\ mu = ""
    /\ frame = [g \in Goroutines |-> NoFrame]
    /\ notifiers = << >>
    /\ ret = NoReturn

\* the engine at work: check cycles, the manual controls, the API requests
\* about alice, the clock and the sessions
Next ==
    \/ \E F \in FailureSets(users) : RunStart(F)
    \/ \E F \in FailureSets(users) : RunTick(F)
    \/ \E u \in Usernames : ResetWarnings(u)
    \/ \E m \in ExtendMinutes, ok \in BOOLEAN :
          Len(time_extensions) < MaxExtensions /\ apiExtendTime(1, m, ok)
    \/ \E e \in BOOLEAN : apiUpdateUser(1, users[1].DailyLimitMins, e)
    \/ \E d \in Deltas : Advance(d)
    \/ \E u \in Usernames : Login(u)
    \/ \E u \in Usernames : Logout(u)

Spec == Init /\ [][Next]_vars

\* the same household with a daily limit of one minute for alice, so that her
\* budget runs out within a minute of use
TightInit ==
    /\ now = StartTime
    /\ users = [id \in UserIDs |->
                  [Username |-> NameOrder[id],
                   DailyLimitMins |-> IF id = 1 THEN 1 ELSE 6,
                   Enabled |-> (id = 1)]]
    /\ usage_log = << >>
    /\ time_extensions = << >>
    /\ sessions = {}
    /\ warningsSent = << >>
    /\ activeSessions = << >>
    /\ lastCheck = ZeroTime
    /\ runState = "idle"
    /\ stopClosed = FALSE
    /\ ctxDone = FALSE
    /\ calls = << >>
    /\ sent = [k \in Usernames \X {WarningIntervals[i] : i \in 1..Len(WarningIntervals)} |->
                  [date |-> 0, count |-> 0]]
    /\ failures = {}
    /\ pc = [g \in Goroutines |-> "idle"]
    /\ mu = ""
    /\ frame = [g \in Goroutines |-> NoFrame]
    /\ notifiers = << >>
    /\ ret = NoReturn

\* the minutes of an extend-time request in this household
TightMinutes == {2}

\* check cycles, extensions for alice, the clock and alice's sessions
TightNext ==
    \/ \E F \in FailureSets(users) : RunStart(F)
    \/ \E F \in FailureSets(users) : RunTick(F)
    \/ \E m \in TightMinutes, ok \in BOOLEAN :
          Len(time_extensions) < MaxExtensions /\ apiExtendTime(1, m, ok)
    \/ \E d \in Deltas : Advance(d)
    \/ Login("alice")
    \/ Logout("alice")

TightSpec == TightInit /\ [][TightNext]_vars

----------------------------------------------------------------------------
(* The accounting store on its own, called the way storage_test.go calls it *)

StoreAddUsageTime(id, seconds) ==
    /\ GetTodayUsageSeconds(usage_log, id, now) + seconds <= MaxUsedSeconds
    /\ usage_log' = AddUsageTime(usage_log, id, seconds, now)
    /\ calls' = << Call("AddUsageTime", users[id].Username, seconds, 0, TRUE) >>
    /\ UNCHANGED <<now, users, time_extensions, sessions, warningsSent, activeSessions,
                   lastCheck, runState, stopClosed, ctxDone, sent,
                   failures, pc, mu, frame,
                   notifiers, ret>>

StoreAddTimeExtension(id, minutes) ==
    /\ Len(time_extensions) < MaxExtensions
    /\ time_extensions' = AddTimeExtension(time_extensions, id, minutes, "parent", now)
    /\ calls' = << Call("AddTimeExtension", users[id].Username, minutes, 0, TRUE) >>
    /\ UNCHANGED <<now, users, usage_log, sessions, warningsSent, activeSessions,
                   lastCheck, runState, stopClosed, ctxDone, sent,
                   failures, pc, mu, frame,
                   notifiers, ret>>

StoreGetRemainingMinutes(id) ==
    /\ calls' = << Call("GetRemainingMinutes", users[id].Username,
                        GetRemainingMinutes(users, usage_log, time_extensions, id, now),
                        0, TRUE) >>
    /\ UNCHANGED <<now, users, usage_log, time_extensions, sessions, warningsSent,
                   activeSessions, lastCheck, runState, stopClosed, ctxDone, sent,
                   failures, pc, mu, frame,
                   notifiers, ret>>

\* the next calendar day begins
StoreNextDay ==
    /\ Today(now) = Today(StartTime)
    /\ now' = now + TicksPerDay
    /\ calls' = <<>>
    /\ UNCHANGED <<users, usage_log, time_extensions, sessions, warningsSent,
                   activeSessions, lastCheck, runState, stopClosed, ctxDone, sent,
                   failures, pc, mu, frame,
                   notifiers, ret>>

\* CreateUser("alice", limit) on an empty store
StoreInit ==
    /\ now = StartTime
    /\ \E limit \in StoreLimits :
          users = [id \in {1} |->
                     [Username |-> "alice", DailyLimitMins |-> limit, Enabled |-> TRUE]]
    /\ usage_log = << >>
    /\ time_extensions = << >>
    /\ sessions = {}
    /\ warningsSent = << >>
    /\ activeSessions = << >>
    /\ lastCheck = ZeroTime
    /\ runState = "idle"
    /\ stopClosed = FALSE
    /\ ctxDone = FALSE
    /\ calls = << >>
    /\ sent = [k \in Usernames \X {WarningIntervals[i] : i \in 1..Len(WarningIntervals)} |->
                  [date |-> 0, count |-> 0]]
    /\ failures = {}
    /\ pc = [g \in Goroutines |-> "idle"]
    /\ mu = ""
    /\ frame = [g \in Goroutines |-> NoFrame]
    /\ notifiers = << >>
    /\ ret = NoReturn

StoreNext ==
    \/ \E s \in StoreSeconds : StoreAddUsageTime(1, s)
    \/ \E m \in StoreMinutes : StoreAddTimeExtension(1, m)
    \/ StoreGetRemainingMinutes(1)
    \/ StoreNextDay

StoreSpec == StoreInit /\ [][StoreNext]_vars

----------------------------------------------------------------------------
(* Scheduler.check statement by statement, as the goroutine of Run and a    *)
(* goroutine that calls ForceCheck execute it. pc[g] names the statement g  *)
(* is at; at the name of a call to a dependency, that call is in progress.  *)

\* the goroutines that run check
Checkers == {"run", "force"}

\* how an insert of a row that refers to users(id) can end: with the row of
\* the user there it succeeds; without it the FOREIGN KEY makes it fail on a
\* connection that has PRAGMA foreign_keys = ON, which New sets on the one
\* connection of the pool that ran the statement
InsertOutcomes(tbl, id) == IF id \in DOMAIN tbl THEN {TRUE} ELSE BOOLEAN

\* the user the loop of g is at
CheckUserID(g) == ListUsers(frame[g].users)[frame[g].user]

\* the loop over the users moves on: g is back at the head of the loop
CheckContinue(g) ==
    /\ pc' = [pc EXCEPT ![g] = "user"]
    /\ frame' = [frame EXCEPT ![g].user = @ + 1, ![g].remaining = 0, ![g].i = 0]

\* now := time.Now(); elapsed := now.Sub(s.lastCheck). Run calls check at once
\* when it starts and then at a tick; ForceCheck is called here while the
\* loop of Run is inside a cycle
CheckEnter(g) ==
    /\ pc[g] = "idle"
    /\ IF g = "run"
       THEN /\ runState = "idle" \/ (runState = "running" /\ now > frame[g].now)
            /\ runState' = "running"
       ELSE /\ pc["run"] # "idle"
            /\ UNCHANGED runState
    /\ frame' = [frame EXCEPT ![g] = [NoFrame EXCEPT !.now = now,
                                                     !.elapsed = Sub(now, lastCheck)]]
    /\ pc' = [pc EXCEPT ![g] = "lastCheck"]
    /\ calls' = <<>>
    /\ UNCHANGED <<now, users, usage_log, time_extensions, sessions, warningsSent,
                   activeSessions, lastCheck, stopClosed, ctxDone, sent, failures, mu,
                   notifiers, ret>>

\* s.lastCheck = now
CheckSetLastCheck(g) ==
    /\ pc[g] = "lastCheck"
    /\ lastCheck' = frame[g].now
    /\ pc' = [pc EXCEPT ![g] = "reset"]
    /\ calls' = <<>>
    /\ UNCHANGED <<now, users, usage_log, time_extensions, sessions, warningsSent,
                   activeSessions, runState, stopClosed, ctxDone, sent, failures,
                   mu, frame,
                   notifiers, ret>>

\* the midnight reset: s.mu.Lock(); s.warningsSent = make(...); s.mu.Unlock()
CheckReset(g) ==
    /\ pc[g] = "reset"
    /\ IF Hour(frame[g].now) = 0 /\ Minute(frame[g].now) < 1
       THEN /\ mu = ""
            /\ warningsSent' = << >>
       ELSE UNCHANGED warningsSent
    /\ pc' = [pc EXCEPT ![g] = "ListUsers"]
    /\ calls' = <<>>
    /\ UNCHANGED <<now, users, usage_log, time_extensions, sessions, activeSessions,
                   lastCheck, runState, stopClosed, ctxDone, sent, failures, mu, frame,
                   notifiers, ret>>

\* users, err := s.store.ListUsers() returns; s.sessions.ListSessions() begins
CheckListUsers(g) ==
    /\ pc[g] = "ListUsers"
    /\ frame' = [frame EXCEPT ![g].users = users]
    /\ pc' = [pc EXCEPT ![g] = "ListSessions"]
    /\ calls' = << Call("ListUsers", "", 0, 0, TRUE) >>
    /\ UNCHANGED <<now, users, usage_log, time_extensions, sessions, warningsSent,
                   activeSessions, lastCheck, runState, stopClosed, ctxDone, sent,
                   failures, mu,
                   notifiers, ret>>

\* ListSessions returns; loggedInUsers is built
CheckListSessions(g) ==
    /\ pc[g] = "ListSessions"
    /\ frame' = [frame EXCEPT ![g].loggedIn = sessions, ![g].user = 1]
    /\ pc' = [pc EXCEPT ![g] = "user"]
    /\ calls' = << Call("ListSessions", "", 0, 0, TRUE) >>
    /\ UNCHANGED <<now, users, usage_log, time_extensions, sessions, warningsSent,
                   activeSessions, lastCheck, runState, stopClosed, ctxDone, sent,
                   failures, mu,
                   notifiers, ret>>

\* the head of the loop over users: check returns after the last user, a
\* disabled user is passed over
CheckNextUser(g) ==
    /\ pc[g] = "user"
    /\ IF frame[g].user > Len(ListUsers(frame[g].users))
       THEN /\ pc' = [pc EXCEPT ![g] = "idle"]
            /\ frame' = [frame EXCEPT ![g].users = << >>, ![g].loggedIn = {},
                                      ![g].user = 0]
       ELSE IF ~frame[g].users[CheckUserID(g)].Enabled
       THEN CheckContinue(g)
       ELSE /\ pc' = [pc EXCEPT ![g] = "track"]
            /\ UNCHANGED frame
    /\ calls' = <<>>
    /\ UNCHANGED <<now, users, usage_log, time_extensions, sessions, warningsSent,
                   activeSessions, lastCheck, runState, stopClosed, ctxDone, sent,
                   failures, mu,
                   notifiers, ret>>

\* the accrual of a logged-in user (the map under the mutex, then
\* AddUsageTime), the removal of the entry of a logged-out user, and the
\* continue of a logged-out user
CheckTrack(g) ==
    LET id == CheckUserID(g)
        name == frame[g].users[id].Username
        isLoggedIn == name \in frame[g].loggedIn
        seconds == Seconds(frame[g].elapsed)
    IN  /\ pc[g] = "track"
        /\ IF isLoggedIn /\ frame[g].elapsed > 0
           THEN /\ mu = ""
                /\ activeSessions' =
                      IF name \in DOMAIN activeSessions THEN activeSessions
                      ELSE [u \in DOMAIN activeSessions \cup {name} |->
                              IF u = name THEN frame[g].now ELSE activeSessions[u]]
                /\ \E ok \in InsertOutcomes(users, id) :
                      /\ usage_log' = IF ok THEN AddUsageTime(usage_log, id, seconds, now)
                                      ELSE usage_log
                      /\ calls' = << Call("AddUsageTime", name, seconds, 0, ok) >>
                      /\ frame' = [frame EXCEPT ![g].credited =
                                                  IF ok THEN seconds ELSE 0]
                /\ pc' = [pc EXCEPT ![g] = "GetRemainingMinutes"]
           ELSE IF ~isLoggedIn
           THEN /\ mu = ""
                /\ activeSessions' = [u \in DOMAIN activeSessions \ {name} |->
                                        activeSessions[u]]
                /\ calls' = <<>>
                /\ CheckContinue(g)
                /\ UNCHANGED usage_log
           ELSE /\ pc' = [pc EXCEPT ![g] = "GetRemainingMinutes"]
                /\ calls' = <<>>
                /\ UNCHANGED <<usage_log, activeSessions, frame>>
        /\ UNCHANGED <<now, users, time_extensions, sessions, warningsSent, lastCheck,
                       runState, stopClosed, ctxDone, sent, failures, mu,
                   notifiers, ret>>

\* a check that passes over a listed user whose record is no longer there
CheckRemaining_SkipMissing(g) ==
    LET id == CheckUserID(g)
        remaining == GetRemainingMinutes(users, usage_log, time_extensions, id, now)
    IN  /\ pc[g] = "GetRemainingMinutes"
        /\ IF id \notin DOMAIN users
           THEN CheckContinue(g)
           ELSE /\ frame' = [frame EXCEPT ![g].remaining = remaining]
                /\ pc' = [pc EXCEPT ![g] = IF remaining <= 0 THEN "SendLockNotice"
                                                             ELSE "checkWarnings"]
        /\ calls' = << Call("GetRemainingMinutes", frame[g].users[id].Username,
                            remaining, 0, id \in DOMAIN users) >>
        /\ UNCHANGED <<now, users, usage_log, time_extensions, sessions, warningsSent,
                       activeSessions, lastCheck, runState, stopClosed, ctxDone, sent,
                       failures, mu,
                   notifiers, ret>>

\* remaining, err := s.store.GetRemainingMinutes(user.ID) and the branch on it
CheckRemaining(g) ==
    LET id == CheckUserID(g)
        remaining == GetRemainingMinutes(users, usage_log, time_extensions, id, now)
    IN  /\ pc[g] = "GetRemainingMinutes"
        /\ frame' = [frame EXCEPT ![g].remaining = remaining]
        /\ pc' = [pc EXCEPT ![g] = IF remaining <= 0 THEN "SendLockNotice"
                                                     ELSE "checkWarnings"]
        /\ calls' = << Call("GetRemainingMinutes", frame[g].users[id].Username,
                            remaining, 0, TRUE) >>
        /\ UNCHANGED <<now, users, usage_log, time_extensions, sessions, warningsSent,
                       activeSessions, lastCheck, runState, stopClosed, ctxDone, sent,
                       failures, mu,
                   notifiers, ret>>

\* handleTimeExpired: SendLockNotice returns, then the grace delay is over,
\* then LockUserSessions returns and the loop moves on
CheckExpired(g) ==
    LET name == frame[g].users[CheckUserID(g)].Username
    IN  /\ pc[g] \in {"SendLockNotice", "Sleep", "LockUserSessions"}
        /\ calls' = << Call(pc[g], name, IF pc[g] = "Sleep" THEN 3 ELSE 0, 0, TRUE) >>
        /\ IF pc[g] = "SendLockNotice"
           THEN pc' = [pc EXCEPT ![g] = "Sleep"] /\ UNCHANGED frame
           ELSE IF pc[g] = "Sleep"
           THEN pc' = [pc EXCEPT ![g] = "LockUserSessions"] /\ UNCHANGED frame
           ELSE CheckContinue(g)
        /\ UNCHANGED <<now, users, usage_log, time_extensions, sessions, warningsSent,
                       activeSessions, lastCheck, runState, stopClosed, ctxDone, sent,
                       failures, mu,
                   notifiers, ret>>

\* checkWarnings: s.mu.Lock(); defer s.mu.Unlock(); the user's set is made
CheckWarningsLock(g) ==
    LET name == frame[g].users[CheckUserID(g)].Username
    IN  /\ pc[g] = "checkWarnings"
        /\ mu = ""
        /\ mu' = g
        /\ warningsSent' =
              IF name \in DOMAIN warningsSent THEN warningsSent
              ELSE [u \in DOMAIN warningsSent \cup {name} |->
                      IF u = name THEN {} ELSE warningsSent[u]]
        /\ frame' = [frame EXCEPT ![g].i = 1]
        /\ pc' = [pc EXCEPT ![g] = "interval"]
        /\ calls' = <<>>
        /\ UNCHANGED <<now, users, usage_log, time_extensions, sessions, activeSessions,
                       lastCheck, runState, stopClosed, ctxDone, sent, failures,
                   notifiers, ret>>

\* checkWarnings: the head of the loop over the intervals; after the last
\* interval the function returns and the deferred Unlock runs
CheckInterval(g) ==
    LET name == frame[g].users[CheckUserID(g)].Username
    IN  /\ pc[g] = "interval"
        /\ mu = g
        /\ IF frame[g].i > Len(WarningIntervals)
           THEN /\ mu' = ""
                /\ CheckContinue(g)
           ELSE IF /\ frame[g].remaining <= WarningIntervals[frame[g].i]
                   /\ ~WarningSent(warningsSent, name, WarningIntervals[frame[g].i])
           THEN /\ pc' = [pc EXCEPT ![g] = "SendWarning"]
                /\ UNCHANGED <<mu, frame>>
           ELSE /\ frame' = [frame EXCEPT ![g].i = @ + 1]
                /\ UNCHANGED <<mu, pc>>
        /\ calls' = <<>>
        /\ UNCHANGED <<now, users, usage_log, time_extensions, sessions, warningsSent,
                       activeSessions, lastCheck, runState, stopClosed, ctxDone, sent,
                       failures,
                   notifiers, ret>>

\* checkWarnings: SendWarning returns; s.warningsSent[username][interval] = true
CheckSendWarning(g) ==
    LET name == frame[g].users[CheckUserID(g)].Username
        interval == WarningIntervals[frame[g].i]
    IN  /\ pc[g] = "SendWarning"
        /\ warningsSent' = [warningsSent EXCEPT ![name] = @ \cup {interval}]
        /\ sent' = CountWarning(sent, name, interval, now)
        /\ frame' = [frame EXCEPT ![g].i = @ + 1]
        /\ pc' = [pc EXCEPT ![g] = "interval"]
        /\ calls' = << Call("SendWarning", name, frame[g].remaining, interval, TRUE) >>
        /\ UNCHANGED <<now, users, usage_log, time_extensions, sessions, activeSessions,
                       lastCheck, runState, stopClosed, ctxDone, failures, mu,
                   notifiers, ret>>

\* a ResetWarnings that does not take the mutex
LockedResetWarnings_NoLock(username) == ResetWarnings(username)

\* Scheduler.ResetWarnings called by a further goroutine: s.mu.Lock() first
LockedResetWarnings(username) ==
    /\ mu = ""
    /\ ResetWarnings(username)

\* no goroutine is inside check
Quiet == \A g \in Checkers : pc[g] = "idle"

\* the statements of check interleaved; the clock and the sessions of alice
\* change between the cycles
StepNext ==
    \/ \E g \in Checkers : CheckEnter(g)
    \/ \E g \in Checkers : CheckSetLastCheck(g)
    \/ \E g \in Checkers : CheckReset(g)
    \/ \E g \in Checkers : CheckListUsers(g)
    \/ \E g \in Checkers : CheckListSessions(g)
    \/ \E g \in Checkers : CheckNextUser(g)
    \/ \E g \in Checkers : CheckTrack(g)
    \/ \E g \in Checkers : CheckRemaining(g)
    \/ \E g \in Checkers : CheckExpired(g)
    \/ \E g \in Checkers : CheckWarningsLock(g)
    \/ \E g \in Checkers : CheckInterval(g)
    \/ \E g \in Checkers : CheckSendWarning(g)
    \/ LockedResetWarnings("alice")
    \/ \E d \in Deltas : Quiet /\ Advance(d)
    \/ Quiet /\ Login("alice")
    \/ Quiet /\ Logout("alice")

StepSpec == Init /\ [][StepNext]_vars

\* the minutes of the extend-time requests sent to the ledger on its own
GrantMinutes == {-1, 0, 1, 2}

\* the extension ledger on its own: extend-time requests for alice, reads of
\* her remaining budget, her usage, the change of day
GrantNext ==
    \/ \E m \in GrantMinutes, ok \in BOOLEAN :
          Len(time_extensions) < MaxGrants /\ apiExtendTime(1, m, ok)
    \/ \E s \in StoreSeconds : StoreAddUsageTime(1, s)
    \/ StoreGetRemainingMinutes(1)
    \/ StoreNextDay

GrantSpec == StoreInit /\ [][GrantNext]_vars

\* the life of Run: started, ticking, stopped or cancelled
RunNext ==
    \/ \E F \in FailureSets(users) : RunStart(F)
    \/ \E F \in FailureSets(users) : RunTick(F)
    \/ RunStop
    \/ RunCancel
    \/ Stop
    \/ StopReturn
    \/ Cancel
    \/ \E d \in Deltas : Advance(d)
    \/ \E u \in Usernames : Login(u)
    \/ \E u \in Usernames : Logout(u)

RunSpec == Init /\ [][RunNext]_vars

\* the select of Run takes a case that is ready: once s.stop is closed the
\* case <-s.stop stays ready until Run returns
RunFairSpec == RunSpec /\ WF_vars(RunStop)

----------------------------------------------------------------------------
(* What the history variable calls says about the latest step *)

\* the latest step was a check cycle
IsCycle == Len(calls) >= 1 /\ calls[1].op = "ListUsers"
\* ... that obtained the users and the sessions
CycleListed ==
    /\ IsCycle /\ calls[1].ok
    /\ Len(calls) >= 2 /\ calls[2].op = "ListSessions" /\ calls[2].ok
\* the positions in calls of the calls of op made for username
CallsOf(op, username) ==
    {i \in 1..Len(calls) : calls[i].op = op /\ calls[i].user = username}
\* the latest step made no call for username
NoCallsFor(username) == \A i \in 1..Len(calls) : calls[i].user # username
\* the step leaves the usage rows of user id as they are
UsageKept(id) ==
    \A k \in DOMAIN usage_log' :
        k[1] = id => k \in DOMAIN usage_log /\ usage_log'[k] = usage_log[k]

----------------------------------------------------------------------------
(* C1: the first check cycle of a scheduler (lastCheck still the zero time) *)
(* credits no usage: it makes no AddUsageTime call and leaves the usage     *)
(* table as it is.                                                          *)
C1_FirstCycleCreditsNothing ==
    [][(lastCheck = ZeroTime /\ lastCheck' # ZeroTime)
          => /\ usage_log' = usage_log
             /\ \A i \in 1..Len(calls') : calls'[i].op # "AddUsageTime"]_vars

(* C2: for every user and threshold, SendWarning for that threshold is made *)
(* at most once per calendar day while no extension and no ResetWarnings    *)
(* occurs for the user.                                                     *)
C2_WarningAtMostOncePerDay ==
    \A k \in DOMAIN sent : sent[k].count <= 1

(* C3: a check cycle that finds an enabled, logged-in user with remaining   *)
(* <= 0 sends the lock notice and afterwards calls LockUserSessions for that *)
(* user in the same cycle, whether or not the lock notice succeeded.        *)
C3_NoticeThenLock ==
    \A id \in DOMAIN users :
        LET name == users[id].Username
        IN  ( /\ CycleListed
              /\ users[id].Enabled
              /\ name \in sessions
              /\ \A i \in CallsOf("GetRemainingMinutes", name) : calls[i].ok
              /\ GetRemainingMinutes(users, usage_log, time_extensions, id, now) <= 0 )
            => /\ Cardinality(CallsOf("SendLockNotice", name)) = 1
               /\ Cardinality(CallsOf("LockUserSessions", name)) = 1
               /\ \A i \in CallsOf("SendLockNotice", name) :
                    \A j \in CallsOf("LockUserSessions", name) : i < j

\* a cycle in which the lock notice failed and the lock call was made
C3_Witness ==
    \E i \in CallsOf("SendLockNotice", "alice") :
        /\ ~calls[i].ok
        /\ \E j \in CallsOf("LockUserSessions", "alice") : i < j

----------------------------------------------------------------------------
(* The remaining budget stated from the tables, without the store's code *)

\* floor(used / 60) as the q with 60 q <= used < 60 (q + 1)
WholeMinutes(used) ==
    CHOOSE q \in 0..(MaxUsedSeconds + 1) :
        SecondsPerMinute * q <= used /\ used < SecondsPerMinute * (q + 1)

RECURSIVE SumRows(_)
SumRows(rows) ==
    IF rows = {} THEN 0
    ELSE LET i == CHOOSE r \in rows : TRUE
         IN  time_extensions[i].minutes + SumRows(rows \ {i})

\* dailyLimit + todayExtensions - floor(todayUsedSeconds / 60)
Budget(id) ==
    users[id].DailyLimitMins
    + SumRows({i \in 1..Len(time_extensions) :
                  time_extensions[i].user_id = id /\ time_extensions[i].date = Today(now)})
    - WholeMinutes(IF <<id, Today(now)>> \in DOMAIN usage_log
                   THEN usage_log[<<id, Today(now)>>] ELSE 0)

(* C4: GetRemainingMinutes(user) is max(0, dailyLimit + todayExtensions -   *)
(* floor(todayUsedSeconds / 60)): never negative, and exactly 0 whenever    *)
(* floor(usedSeconds / 60) >= limit + extensions.                           *)
C4_RemainingIsClampedBudget ==
    \A id \in DOMAIN users :
        \A i \in CallsOf("GetRemainingMinutes", users[id].Username) :
            /\ calls[i].arg >= 0
            /\ Budget(id) <= 0 => calls[i].arg = 0
            /\ Budget(id) > 0 => calls[i].arg = Budget(id)

\* a read by a user whose usage is beyond the limit and the extensions
C4_Witness ==
    \E id \in DOMAIN users :
        /\ Budget(id) < 0
        /\ \E i \in CallsOf("GetRemainingMinutes", users[id].Username) : calls[i].arg = 0

----------------------------------------------------------------------------
\* the enabled flag of the user called username (FALSE when there is none)
EnabledName(username) ==
    \E id \in DOMAIN users : users[id].Username = username /\ users[id].Enabled

\* the step leaves the usage rows of every user called username as they are
UsageKeptName(username) ==
    \A id \in DOMAIN users : users[id].Username = username => UsageKept(id)

\* the step leaves the Active-Session entry of username as it is
EntryKept(username) ==
    /\ username \in DOMAIN activeSessions' <=> username \in DOMAIN activeSessions
    /\ username \in DOMAIN activeSessions
          => activeSessions'[username] = activeSessions[username]

(* C5 as stated: in a check cycle in which a user is not in the session     *)
(* list, the user gets no accrual, no warning, no lock notice and no lock   *)
(* call, and any Active-Session entry of that user is removed.              *)
C5_LoggedOutUntouchedEntryRemoved ==
    [][CycleListed' =>
         \A u \in Usernames \ sessions :
            /\ UsageKeptName(u)
            /\ NoCallsFor(u)'
            /\ u \notin DOMAIN activeSessions']_vars

(* C5 amended: in a check cycle in which a user is not in the session list, *)
(* the user gets no accrual, no warning, no lock notice and no lock call;   *)
(* the Active-Session entry of an enabled user is removed, that of a        *)
(* disabled user is left as it is.                                          *)
C5_LoggedOutUntouched ==
    [][CycleListed' =>
         \A u \in Usernames \ sessions :
            /\ UsageKeptName(u)
            /\ NoCallsFor(u)'
            /\ EnabledName(u) => u \notin DOMAIN activeSessions'
            /\ ~EnabledName(u) => EntryKept(u)]_vars

\* a cycle has passed over an enabled user who had a session today and has
\* none now, and her Active-Session entry is gone
C5_Witness ==
    /\ CycleListed
    /\ \E id \in DOMAIN users :
          /\ users[id].Enabled
          /\ users[id].Username \notin sessions
          /\ <<id, Today(now)>> \in DOMAIN usage_log
          /\ users[id].Username \notin DOMAIN activeSessions

(* C6: a user whose enabled flag is false at the time of a check cycle gets *)
(* no AddUsageTime, no SendWarning, no SendLockNotice and no                *)
(* LockUserSessions call in that cycle, logged in or not.                   *)
C6_DisabledUntouched ==
    [][IsCycle' =>
         \A id \in DOMAIN users :
            ~users[id].Enabled => UsageKept(id) /\ NoCallsFor(users[id].Username)']_vars

\* a cycle has passed over a disabled user who is logged in
C6_Witness ==
    /\ CycleListed
    /\ \E id \in DOMAIN users : ~users[id].Enabled /\ users[id].Username \in sessions

(* C7: granting an extension of m minutes with AddTimeExtension raises the  *)
(* value of the next GetRemainingMinutes by exactly m, in every prior state *)
(* of the user.                                                             *)
C7_ExtensionAddsExactly ==
    [][Len(time_extensions') = Len(time_extensions) + 1 =>
         LET row == time_extensions'[Len(time_extensions')]
         IN  GetRemainingMinutes(users', usage_log', time_extensions', row.user_id, now')
             = GetRemainingMinutes(users, usage_log, time_extensions, row.user_id, now)
               + row.minutes]_vars

(* C8: when the extend-time operation of the API grants an extension to a   *)
(* user, that user's warning dedup set is cleared.                          *)
C8_ExtensionClearsWarnings ==
    [][Len(time_extensions') = Len(time_extensions) + 1 =>
         LET row == time_extensions'[Len(time_extensions')]
             name == users[row.user_id].Username
         IN  name \in DOMAIN warningsSent' => warningsSent'[name] = {}]_vars

(* C9: when the calendar day has changed between two check cycles, the      *)
(* warning dedup state is cleared before warnings are next evaluated: at    *)
(* every evaluation of a user's warnings, the thresholds found in the       *)
(* user's dedup set were all sent on the day of the evaluation.             *)
C9_DedupHoldsTodayOnly ==
    \A u \in Usernames :
        ( /\ CycleListed
          /\ \E i \in CallsOf("GetRemainingMinutes", u) : calls[i].ok /\ calls[i].arg > 0
          /\ u \in DOMAIN warningsSent )
        => \A interval \in warningsSent[u] : sent[<<u, interval>>].date = Today(now)

\* a dependency call of the latest cycle returned an error
CycleFailed == IsCycle /\ \E i \in 1..Len(calls) : ~calls[i].ok

(* C10: Run returns only on the stop signal or on the cancellation of its   *)
(* context, never because a call of a check cycle failed: a cycle with a    *)
(* failed call leaves Run in its loop.                                      *)
C10_RunReturnsOnSignalOnly ==
    [][/\ (runState # "returned" /\ runState' = "returned")
            => (stopClosed \/ ctxDone) /\ ~IsCycle'
       /\ CycleFailed' => runState' = "running"]_vars

\* Run is in its loop after a tick's cycle in which a call failed
C10_Witness ==
    /\ CycleFailed
    /\ runState = "running"
    /\ lastCheck > StartTime

----------------------------------------------------------------------------
(* C11: if AddUsageTime fails for a user in a check cycle, the rest of that *)
(* user's processing in the cycle is abandoned: no remaining-budget read,   *)
(* no warning, no lock notice and no lock call for that user in that cycle. *)
C11_FailedAccrualAbandonsUser ==
    \A u \in Usernames :
        (IsCycle /\ \E i \in CallsOf("AddUsageTime", u) : ~calls[i].ok)
        => \A i \in 1..Len(calls) :
              calls[i].user = u => calls[i].op = "AddUsageTime"

\* both goroutines are inside check
CyclesOverlap == \A g \in Checkers : pc[g] # "idle"

\* both goroutines' latest calls of check measured elapsed against a stored
\* lastCheck (not against the zero time of New), credited seconds, and the
\* intervals [now - elapsed, now] they credited have a part in common
CreditedTwice ==
    /\ \A g \in Checkers : frame[g].credited > 0 /\ frame[g].elapsed < MaxDuration
    /\ frame["run"].now - frame["run"].elapsed < frame["force"].now
    /\ frame["force"].now - frame["force"].elapsed < frame["run"].now

NoIntervalCreditedTwice == ~CreditedTwice

(* C12: check cycles never overlap, and no interval is credited twice, also *)
(* when ForceCheck is called from another goroutine while the loop of Run   *)
(* executes a cycle.                                                        *)
C12_CyclesNeverOverlap == ~CyclesOverlap /\ NoIntervalCreditedTwice

\* the operations of the Notification Sink and of the Session Directory
ExternalCalls == {"SendWarning", "SendLockNotice", "ListSessions", "LockUserSessions"}

(* C13: the mutex is never held while a call to the Notification Sink       *)
(* (SendWarning, SendLockNotice) or to the Session Directory (ListSessions, *)
(* LockUserSessions) is in progress.                                        *)
C13_NoCallUnderMutex == \A g \in Checkers : pc[g] \in ExternalCalls => mu # g

----------------------------------------------------------------------------
\* a step that is a check cycle of Run: it stores a new lastCheck
CycleStep == lastCheck' # lastCheck

(* C14: after Stop is called on a running scheduler, Run eventually         *)
(* returns; Stop returns only after Run has exited; no check cycle starts   *)
(* after Stop has returned.                                                 *)
C14_StopEndsRun ==
    /\ (pc["stop"] = "waiting" /\ runState = "running") ~> (runState = "returned")
    /\ [](pc["stop"] = "returned" => runState = "returned")
    /\ [][pc["stop"] = "returned" => ~CycleStep]_vars

\* Stop was called and has returned after a scheduler that had ticked
C14_Witness ==
    /\ pc["stop"] = "returned"
    /\ runState = "returned"
    /\ ~ctxDone
    /\ lastCheck > StartTime

(* C15: Run executes exactly one check cycle immediately on start: before   *)
(* it waits for the first tick and before it can observe a stop or a        *)
(* cancellation signal. Leaving "idle" is a check cycle that ends in the    *)
(* loop, nothing else runs a cycle for an idle Run, Run does not return     *)
(* from "idle", and a further cycle needs the clock to have moved on.       *)
C15_ImmediateFirstCycle ==
    [][/\ (runState = "idle" /\ runState' # "idle")
            => (runState' = "running" /\ IsCycle' /\ lastCheck' = now)
       /\ (runState = "idle" /\ runState' = "idle") => ~CycleStep
       /\ (runState' = "returned") => (runState # "idle")
       /\ (runState = "running" /\ CycleStep) => now > lastCheck]_vars

\* Run was started after Stop and after the cancellation: it ran its cycle
C15_Witness ==
    /\ stopClosed
    /\ ctxDone
    /\ runState = "running"
    /\ IsCycle
    /\ now = StartTime

----------------------------------------------------------------------------
\* the failed lock of username that no later cycle has made up for yet
FailedLocks(username) ==
    {f \in failures : f.op = "LockUserSessions" /\ f.user = username}

\* the cycle of this step finds username enabled and logged in
FoundLoggedIn(username) ==
    /\ username \in sessions
    /\ \E id \in DOMAIN users : users[id].Username = username /\ users[id].Enabled

\* the cycle of this step issued the lock notice and the lock call for username
LockedAgain(username) ==
    /\ \E i \in 1..Len(calls') :
          /\ calls'[i].op = "GetRemainingMinutes"
          /\ calls'[i].user = username
          /\ calls'[i].ok
          /\ calls'[i].arg = 0
    /\ \E i \in 1..Len(calls') :
          calls'[i].op = "SendLockNotice" /\ calls'[i].user = username
    /\ \E i \in 1..Len(calls') :
          calls'[i].op = "LockUserSessions" /\ calls'[i].user = username

\* the cycle of this step got the user list, the session list and the
\* remaining budget of username
ReadRemaining(username) ==
    /\ \A i \in 1..Len(calls') :
          calls'[i].op \in {"ListUsers", "ListSessions"} => calls'[i].ok
    /\ \A i \in 1..Len(calls') :
          (calls'[i].op = "GetRemainingMinutes" /\ calls'[i].user = username)
          => calls'[i].ok

\* LockUserSessions is called at most once for a user in a cycle
LockNotRetried ==
    \A u \in Usernames : IsCycle => Cardinality(CallsOf("LockUserSessions", u)) <= 1

(* C16 as stated: a failed LockUserSessions is not retried within the cycle, *)
(* and in the very next cycle in which the user is still enabled and logged  *)
(* in the user is again found at remaining = 0 and the lock notice and the   *)
(* lock call are issued again.                                               *)
C16_RelockedInNextCycle ==
    [][/\ LockNotRetried'
       /\ \A u \in Usernames :
             (CycleStep /\ FailedLocks(u) # {} /\ FoundLoggedIn(u)) => LockedAgain(u)]_vars

(* C16 amended: a failed LockUserSessions is not retried within the cycle;   *)
(* the very next cycle that finds the user enabled and logged in and obtains *)
(* the user list, the session list and the user's remaining budget issues    *)
(* the lock notice and the lock call again, provided it is still the same    *)
(* day and the user's budget (daily limit plus extensions) has not grown.    *)
C16_RelockedUnlessBudgetRenewed ==
    [][/\ LockNotRetried'
       /\ \A u \in Usernames :
             (/\ CycleStep
              /\ FoundLoggedIn(u)
              /\ ReadRemaining(u)
              /\ \E f \in FailedLocks(u) :
                    /\ f.date = Today(now)
                    /\ DayBudget(users, time_extensions, u, now) <= f.budget)
             => LockedAgain(u)]_vars

\* the lock of alice failed in two cycles in a row
C16_Witness ==
    /\ IsCycle
    /\ \E f \in FailedLocks("alice") : f.tries = 2 /\ f.date = Today(now)
    /\ \E i \in CallsOf("LockUserSessions", "alice") : ~calls[i].ok

----------------------------------------------------------------------------
\* the cycle of this step called SendWarning for <<username, interval>>
WarnedNow(username, interval) ==
    \E i \in 1..Len(calls') :
        /\ calls'[i].op = "SendWarning"
        /\ calls'[i].user = username
        /\ calls'[i].interval = interval

\* a SendWarning for <<username, interval>> failed earlier today, and the
\* user's dedup set was not cleared on request since
FailedToday(username, interval) ==
    \E f \in failures :
        /\ f.op = "SendWarning"
        /\ f.user = username
        /\ f.interval = interval
        /\ f.date = Today(now)

(* C17: in warning evaluation a qualifying threshold is marked as sent for  *)
(* the user whether SendWarning succeeded or failed, so a failed delivery   *)
(* is not retried for the same threshold in later cycles of the same day.   *)
C17_FailedWarningNotRetried ==
    [][CycleStep =>
         \A u \in Usernames : \A k \in 1..Len(WarningIntervals) :
            /\ WarnedNow(u, WarningIntervals[k])
                  => WarningSent(warningsSent', u, WarningIntervals[k])
            /\ FailedToday(u, WarningIntervals[k])
                  => ~WarnedNow(u, WarningIntervals[k])]_vars

\* the first half of C17 on its own: a threshold is marked whether or not
\* the delivery succeeded
WarnedIsMarked ==
    [][CycleStep =>
         \A u \in Usernames : \A k \in 1..Len(WarningIntervals) :
            WarnedNow(u, WarningIntervals[k])
               => WarningSent(warningsSent', u, WarningIntervals[k])]_vars

----------------------------------------------------------------------------
\* the dedup set of username in the map ws
DedupSet(ws, username) == IF username \in DOMAIN ws THEN ws[username] ELSE {}

\* the cycle of this step read a remaining budget <= 0 for username
FoundExpired(username) ==
    \E i \in 1..Len(calls') :
        /\ calls'[i].op = "GetRemainingMinutes"
        /\ calls'[i].user = username
        /\ calls'[i].ok
        /\ calls'[i].arg <= 0

\* for username the cycle of this step made the calls of the time-expired
\* path after the remaining read, and no SendWarning
OnlyExpiredPath(username) ==
    /\ ~\E i \in 1..Len(calls') : calls'[i].op = "SendWarning" /\ calls'[i].user = username
    /\ \E i \in 1..Len(calls') :
          calls'[i].op = "SendLockNotice" /\ calls'[i].user = username
    /\ \E i \in 1..Len(calls') :
          calls'[i].op = "LockUserSessions" /\ calls'[i].user = username

(* C18 as stated: in a check cycle where a user's remaining budget is <= 0, *)
(* no SendWarning is issued for that user and the user's warning dedup set  *)
(* is left unchanged; only the time-expired path runs.                      *)
C18_ExpiredLeavesDedupUnchanged ==
    [][\A u \in Usernames :
          (CycleStep /\ FoundExpired(u))
          => /\ OnlyExpiredPath(u)
             /\ DedupSet(warningsSent', u) = DedupSet(warningsSent, u)]_vars

(* C18 amended: in a check cycle where a user's remaining budget is <= 0,   *)
(* no SendWarning is issued for that user and only the time-expired path    *)
(* runs; the user's dedup set is the one the midnight reset at the start of *)
(* the cycle left (empty in a cycle of the minute 00:00, unchanged in any   *)
(* other cycle).                                                            *)
C18_ExpiredSkipsWarnings ==
    [][\A u \in Usernames :
          (CycleStep /\ FoundExpired(u))
          => /\ OnlyExpiredPath(u)
             /\ DedupSet(warningsSent', u)
                   = DedupSet(MidnightReset(warningsSent, now), u)]_vars

\* alice, warned today about threshold 5, is found expired by a cycle of the
\* minute 00:00, after which her dedup set is empty
C18_Witness ==
    /\ IsCycle
    /\ \E i \in CallsOf("GetRemainingMinutes", "alice") : calls[i].ok /\ calls[i].arg <= 0
    /\ CallsOf("LockUserSessions", "alice") # {}
    /\ Hour(now) = 0 /\ Minute(now) < 1
    /\ sent[<<"alice", 5>>].date = Today(now)
    /\ sent[<<"alice", 5>>].count >= 1
    /\ DedupSet(warningsSent, "alice") = {}

----------------------------------------------------------------------------
\* the seconds of the successful AddUsageTime calls for username among cs
RECURSIVE SumCredited(_, _)
SumCredited(cs, username) ==
    IF cs = << >> THEN 0
    ELSE (IF Head(cs).op = "AddUsageTime" /\ Head(cs).user = username /\ Head(cs).ok
          THEN Head(cs).arg ELSE 0)
         + SumCredited(Tail(cs), username)

\* the seconds that this step adds for username: those of its cycle, if it is one
CreditedNow(username) == IF CycleStep THEN SumCredited(calls', username) ELSE 0

(* C19: today's used seconds of a user are the sum of the seconds of all    *)
(* AddUsageTime calls made for that user today: every step changes the      *)
(* day's value by exactly the seconds of its successful AddUsageTime calls  *)
(* for the user (the first call creates the record, later calls add), and   *)
(* under the engine's accrual the value never decreases within a day.       *)
C19_UsedSecondsAreSumOfCredits ==
    [][\A id \in DOMAIN users :
          /\ GetTodayUsageSeconds(usage_log', id, now')
                = GetTodayUsageSeconds(usage_log, id, now')
                  + CreditedNow(users[id].Username)
          /\ CreditedNow(users[id].Username) >= 0
          /\ Today(now') = Today(now)
                => GetTodayUsageSeconds(usage_log', id, now')
                      >= GetTodayUsageSeconds(usage_log, id, now)]_vars

\* a cycle has added seconds to the record that an earlier cycle of the day
\* created for alice
C19_Witness ==
    /\ IsCycle
    /\ \E i \in CallsOf("AddUsageTime", "alice") :
          /\ calls[i].ok
          /\ calls[i].arg > 0
          /\ GetTodayUsageSeconds(usage_log, 1, now) > calls[i].arg

----------------------------------------------------------------------------
\* the minutes of the extensions that this step stores for username
RECURSIVE SumGranted(_, _)
SumGranted(cs, username) ==
    IF cs = << >> THEN 0
    ELSE (IF Head(cs).op = "AddTimeExtension" /\ Head(cs).user = username /\ Head(cs).ok
          THEN Head(cs).arg ELSE 0)
         + SumGranted(Tail(cs), username)

\* the minutes this step grants to username; the calls of an unchanged ledger
\* are those of an earlier step
GrantedNow(username) ==
    IF time_extensions' # time_extensions THEN SumGranted(calls', username) ELSE 0

\* a remaining budget read by this step is that of the effective limit: the
\* base limit plus today's extension total, less the used whole minutes
EffectiveLimitUsed(id) ==
    \A i \in 1..Len(calls') :
        (calls'[i].op = "GetRemainingMinutes" /\ calls'[i].user = users[id].Username
         /\ calls'[i].ok /\ calls' # calls)
        => LET total == users[id].DailyLimitMins
                          + GetTodayExtensions(time_extensions', id, now')
               left == total - WholeMinutes(GetTodayUsageSeconds(usage_log', id, now'))
           IN  calls'[i].arg = IF left < 0 THEN 0 ELSE left

(* C20: today's extension total is the sum of the minutes of all extensions *)
(* granted today (every step changes it by exactly the minutes it grants),  *)
(* it is never negative and never decreases within a day, and the effective *)
(* daily limit is the base limit plus that total.                           *)
C20_ExtensionTotalIsSumOfGrants ==
    [][\A id \in DOMAIN users :
          /\ GetTodayExtensions(time_extensions', id, now')
                = GetTodayExtensions(time_extensions, id, now')
                  + GrantedNow(users[id].Username)
          /\ GetTodayExtensions(time_extensions', id, now') >= 0
          /\ Today(now') = Today(now)
                => GetTodayExtensions(time_extensions', id, now')
                      >= GetTodayExtensions(time_extensions, id, now)
          /\ EffectiveLimitUsed(id)]_vars

\* alice's remaining budget is read after two extensions of the day, of 1 and
\* of 2 minutes, and is her base limit plus 3 minutes
C20_Witness ==
    /\ GetTodayExtensions(time_extensions, 1, now) = 3
    /\ Len(time_extensions) = 2
    /\ Len(calls) = 1
    /\ calls[1].op = "GetRemainingMinutes"
    /\ calls[1].arg = users[1].DailyLimitMins + 3


(***************************************************************************)
(* internal/notifier: the Chain of notifiers and the MockNotifier member.  *)
(***************************************************************************)

\* the longest chain and the most calls one member receives
MaxChain == 3
MaxCallCount == 2

\* the three events of the Notifier interface
ChainEvents == {"SendWarning", "SendLockNotice", "SendTimeExtended"}

\* MockNotifier.ShouldFailAfter: 0 never fails, n fails from call n+1 on
FailAfter == {0, 1, 2}

\* NewMockNotifier: no recorded calls, callCount 0
NewMockNotifier(shouldFailAfter) ==
    [ShouldFailAfter |-> shouldFailAfter, callCount |-> 0, received |-> << >>]

\* MockNotifier.SendWarning / SendLockNotice / SendTimeExtended: count the
\* call, fail once callCount exceeds a positive ShouldFailAfter, otherwise
\* record the call; err is TRUE for the MockError
MockSend(m, event) ==
    LET counted == [m EXCEPT !.callCount = @ + 1]
    IN  IF m.ShouldFailAfter > 0 /\ counted.callCount > m.ShouldFailAfter
        THEN [member |-> counted, err |-> TRUE]
        ELSE [member |-> [counted EXCEPT !.received = Append(@, event)],
              err |-> FALSE]

\* the range loop of a Chain method from member i on: lastErr is the index of
\* the member whose error is held (0 for nil), called the members called so far
RECURSIVE ChainLoop(_, _, _, _, _)
ChainLoop(ns, event, i, lastErr, called) ==
    IF i > Len(ns) THEN [notifiers |-> ns, err |-> lastErr, called |-> called]
    ELSE LET r == MockSend(ns[i], event)
         IN  ChainLoop([ns EXCEPT ![i] = r.member], event, i + 1,
                       IF r.err THEN i ELSE lastErr, Append(called, i))

\* a chain whose loop returns at the first error
RECURSIVE ChainLoop_ShortCircuit(_, _, _, _, _)
ChainLoop_ShortCircuit(ns, event, i, lastErr, called) ==
    IF i > Len(ns) \/ lastErr # 0
    THEN [notifiers |-> ns, err |-> lastErr, called |-> called]
    ELSE LET r == MockSend(ns[i], event)
         IN  ChainLoop_ShortCircuit([ns EXCEPT ![i] = r.member], event, i + 1,
                       IF r.err THEN i ELSE lastErr, Append(called, i))

ChainDeliver_ShortCircuit(ns, event) ==
    ChainLoop_ShortCircuit(ns, event, 1, 0, << >>)

\* Chain.SendWarning / SendLockNotice / SendTimeExtended: var lastErr error,
\* the loop over c.notifiers, return lastErr
ChainDeliver(ns, event) == ChainLoop(ns, event, 1, 0, << >>)

\* Chain.Add
ChainAdd(shouldFailAfter) ==
    /\ Len(notifiers) < MaxChain
    /\ notifiers' = Append(notifiers, NewMockNotifier(shouldFailAfter))
    /\ ret' = [op |-> "Add"]
    /\ UNCHANGED <<now, users, usage_log, time_extensions, sessions,
                   warningsSent, activeSessions, lastCheck, runState,
                   stopClosed, ctxDone, calls, sent, failures, pc, mu, frame>>

\* one call of a Chain method by the program
ChainSend(event) ==
    /\ \A i \in 1..Len(notifiers) : notifiers[i].callCount < MaxCallCount
    /\ LET r == ChainDeliver(notifiers, event)
       IN  /\ notifiers' = r.notifiers
           /\ ret' = [op |-> event, err |-> r.err, called |-> r.called]
    /\ UNCHANGED <<now, users, usage_log, time_extensions, sessions,
                   warningsSent, activeSessions, lastCheck, runState,
                   stopClosed, ctxDone, calls, sent, failures, pc, mu, frame>>

ChainNext ==
    \/ \E f \in FailAfter : ChainAdd(f)
    \/ \E event \in ChainEvents : ChainSend(event)

ChainSpec == Init /\ [][ChainNext]_vars

\* a step in which a Chain method ran
ChainSent == ret'.op \in ChainEvents /\ <<notifiers, ret>>' # <<notifiers, ret>>

\* member i recorded the event of this step
Delivered(i) ==
    notifiers'[i].received = Append(notifiers[i].received, ret'.op)

\* the members that returned an error in this step
FailedMembers ==
    {i \in 1..Len(notifiers) : notifiers'[i].received = notifiers[i].received}

\* the largest member of a non-empty set of indices
LastOf(S) == CHOOSE i \in S : \A j \in S : j <= i

\* C21: a Chain method calls every member once, in order, whether or not an
\* earlier member failed; it returns the error of the last failing member,
\* and nil when no member fails or the chain is empty
C21_ChainCallsEveryMember ==
    [][ChainSent =>
          /\ Len(notifiers') = Len(notifiers)
          /\ ret'.called = [i \in 1..Len(notifiers) |-> i]
          /\ \A i \in 1..Len(notifiers) :
                /\ notifiers'[i].callCount = notifiers[i].callCount + 1
                /\ Delivered(i) \/ i \in FailedMembers
          /\ ret'.err = IF FailedMembers = {} THEN 0 ELSE LastOf(FailedMembers)
      ]_vars

\* the first member failed, the two after it were still called and recorded
\* the event, and the first member's error came back
C21_Witness ==
    /\ ret.op = "SendWarning"
    /\ ret.called = <<1, 2, 3>>
    /\ ret.err = 1
    /\ notifiers[1].received = <<"SendLockNotice">>
    /\ Len(notifiers[2].received) = 2
    /\ Len(notifiers[3].received) = 2


----------------------------------------------------------------------------
(* Scheduler.GetAllStatus: the status projection.                          *)

\* the calls of GetAllStatus that can return an error
StatusFailPoints ==
    {<<"ListUsers", "">>, <<"ListSessions", "">>}
    \cup ({"GetRemainingMinutes", "GetTodayUsageSeconds", "GetTodayExtensions"}
          \X Usernames)

\* no call fails, one call fails, or every read made for one user fails
StatusFailureSets ==
    {{}} \cup {{p} : p \in StatusFailPoints}
         \cup {{p \in StatusFailPoints : p[2] = u} : u \in Usernames}

\* the UserStatus appended for one user: a read that returns an error leaves
\* the zero value of its result, the error is dropped
UserStatus(tbl, log, ledger, loggedIn, id, t, F) ==
    LET name == tbl[id].Username
        remaining == IF <<"GetRemainingMinutes", name>> \in F THEN 0
                     ELSE GetRemainingMinutes(tbl, log, ledger, id, t)
        usedSecs == IF <<"GetTodayUsageSeconds", name>> \in F THEN 0
                    ELSE GetTodayUsageSeconds(log, id, t)
        extensions == IF <<"GetTodayExtensions", name>> \in F THEN 0
                      ELSE GetTodayExtensions(ledger, id, t)
    IN  [Username |-> name,
         IsLoggedIn |-> name \in loggedIn,
         RemainingMins |-> remaining,
         UsedMins |-> usedSecs \div SecondsPerMinute,
         DailyLimitMins |-> tbl[id].DailyLimitMins,
         ExtensionMins |-> extensions,
         Enabled |-> tbl[id].Enabled]

\* the loop over users of GetAllStatus
RECURSIVE StatusLoop(_, _, _, _, _, _, _)
StatusLoop(tbl, log, ledger, loggedIn, ids, t, F) ==
    IF ids = << >> THEN << >>
    ELSE <<UserStatus(tbl, log, ledger, loggedIn, Head(ids), t, F)>>
         \o StatusLoop(tbl, log, ledger, loggedIn, Tail(ids), t, F)

\* a projection that gives up at the first user with a failed read
StatusRows_AbortOnReadError(tbl, log, ledger, loggedIn, t, F) ==
    IF \E p \in F : p[2] # ""
    THEN << >>
    ELSE StatusLoop(tbl, log, ledger, loggedIn, ListUsers(tbl), t, F)

\* the statuses GetAllStatus builds once both listings succeeded
StatusRows(tbl, log, ledger, loggedIn, t, F) ==
    StatusLoop(tbl, log, ledger, loggedIn, ListUsers(tbl), t, F)

\* a status query that also empties the warning dedup state
GetAllStatus_ResetsWarnings(F) ==
    /\ ret' = [op |-> "GetAllStatus", failed |-> F, err |-> FALSE,
               statuses |-> StatusRows(users, usage_log, time_extensions,
                                       sessions, now, F)]
    /\ warningsSent' = << >>
    /\ UNCHANGED <<now, users, usage_log, time_extensions, sessions,
                   activeSessions, lastCheck, runState,
                   stopClosed, ctxDone, calls, sent, failures, pc, mu, frame,
                   notifiers>>

\* GetAllStatus: nil and the error when ListUsers or ListSessions fails,
\* otherwise one UserStatus per listed user and a nil error
GetAllStatus(F) ==
    /\ ret' = IF <<"ListUsers", "">> \in F \/ <<"ListSessions", "">> \in F
              THEN [op |-> "GetAllStatus", failed |-> F, err |-> TRUE,
                    statuses |-> << >>]
              ELSE [op |-> "GetAllStatus", failed |-> F, err |-> FALSE,
                    statuses |-> StatusRows(users, usage_log, time_extensions,
                                            sessions, now, F)]
    /\ UNCHANGED <<now, users, usage_log, time_extensions, sessions,
                   warningsSent, activeSessions, lastCheck, runState,
                   stopClosed, ctxDone, calls, sent, failures, pc, mu, frame,
                   notifiers>>

\* the household of TightSpec, its dependencies working during the cycles,
\* with a host that also queries the status
StatusNext ==
    \/ RunStart({})
    \/ RunTick({})
    \/ \E ok \in BOOLEAN : time_extensions = << >> /\ apiExtendTime(1, 1, ok)
    \/ \E d \in Deltas : Advance(d)
    \/ Login("alice")
    \/ Logout("alice")
    \/ \E F \in StatusFailureSets : GetAllStatus(F)

StatusSpec == TightInit /\ [][StatusNext]_vars

\* a step in which GetAllStatus returned
StatusReturned == ret'.op = "GetAllStatus" /\ ret' # ret

\* the row of the statuses for the user with this id is the only one with the
\* user's name, and each of its fields is the store's value at the time of the
\* call, or zero when the read of that field failed
RowIsRight(id) ==
    LET name == users[id].Username
        rows == ret'.statuses
        F == ret'.failed
    IN  \E i \in 1..Len(rows) :
          /\ rows[i].Username = name
          /\ \A j \in 1..Len(rows) : rows[j].Username = name => j = i
          /\ rows[i].Enabled = users[id].Enabled
          /\ rows[i].DailyLimitMins = users[id].DailyLimitMins
          /\ rows[i].IsLoggedIn = (name \in sessions)
          /\ rows[i].RemainingMins =
                IF <<"GetRemainingMinutes", name>> \in F THEN 0
                ELSE GetRemainingMinutes(users, usage_log, time_extensions, id, now)
          /\ rows[i].UsedMins =
                IF <<"GetTodayUsageSeconds", name>> \in F THEN 0
                ELSE GetTodayUsageSeconds(usage_log, id, now) \div SecondsPerMinute
          /\ rows[i].ExtensionMins =
                IF <<"GetTodayExtensions", name>> \in F THEN 0
                ELSE GetTodayExtensions(time_extensions, id, now)

\* C22: a GetAllStatus that returns statuses returns exactly one row for every
\* user of the store, enabled or not; a field whose read failed is zero, every
\* other field of that row and of the other users' rows has the store's value
C22_StatusRowForEveryUser ==
    [][StatusReturned /\ ~ret'.err =>
          /\ Len(ret'.statuses) = Cardinality(DOMAIN users)
          /\ \A id \in DOMAIN users : RowIsRight(id)
      ]_vars

\* alice has used at least a minute today and her usage read failed: her row
\* shows 0 used minutes, and bob's row (disabled) still shows his 6 minutes
C22_Witness ==
    /\ ret.op = "GetAllStatus"
    /\ ~ret.err
    /\ ret.failed = {<<"GetTodayUsageSeconds", "alice">>}
    /\ GetTodayUsageSeconds(usage_log, 1, now) >= SecondsPerMinute
    /\ Len(ret.statuses) = 2
    /\ ret.statuses[1].Username = "alice" /\ ret.statuses[1].UsedMins = 0
    /\ ret.statuses[1].IsLoggedIn
    /\ ret.statuses[2].Username = "bob" /\ ~ret.statuses[2].Enabled
    /\ ret.statuses[2].RemainingMins = 6

\* C23: GetAllStatus leaves the usage records, the extension ledger, the
\* warning dedup state, the active-session map and lastCheck as they were,
\* whether it returns statuses or an error
C23_StatusMutatesNothing ==
    [][StatusReturned =>
          UNCHANGED <<usage_log, time_extensions, warningsSent, activeSessions,
                      lastCheck, users, sessions, sent, failures>>
      ]_vars

\* GetAllStatus failed in a state where every one of the five is non-empty
C23_Witness ==
    /\ ret.op = "GetAllStatus"
    /\ ret.err
    /\ usage_log # << >>
    /\ time_extensions # << >>
    /\ warningsSent # << >>
    /\ activeSessions # << >>
    /\ lastCheck # ZeroTime


----------------------------------------------------------------------------
(* The day of one child whose limit is two hours: Run is started at 21:59,  *)
(* the ticker fires every CheckInterval, the child logs in at some moment    *)
(* and stays logged in. The day ends inside the horizon.                     *)

\* the daily limit of the child, and the minutes the clock runs after 21:59
ScenarioLimit == 120
ScenarioMinutes == 125

\* config.CheckInterval of DefaultConfig, in seconds
CheckIntervalSeconds == 30

\* one minute more than the limit before midnight
ScenarioStart ==
    TicksPerDay - (ScenarioLimit + 1) * SecondsPerMinute * TicksPerSecond

ScenarioEnd == ScenarioStart + ScenarioMinutes * SecondsPerMinute * TicksPerSecond

ScenarioInit ==
    /\ now = ScenarioStart
    /\ users = [id \in UserIDs |->
                  [Username |-> NameOrder[id],
                   DailyLimitMins |-> IF id = 1 THEN ScenarioLimit ELSE 6,
                   Enabled |-> (id = 1)]]
    /\ usage_log = << >>
    /\ time_extensions = << >>
    /\ sessions = {}
    /\ warningsSent = << >>
    /\ activeSessions = << >>
    /\ lastCheck = ZeroTime
    /\ runState = "idle"
    /\ stopClosed = FALSE
    /\ ctxDone = FALSE
    /\ calls = << >>
    /\ sent = [k \in Usernames \X {WarningIntervals[i] : i \in 1..Len(WarningIntervals)} |->
                  [date |-> 0, count |-> 0]]
    /\ failures = {}
    /\ pc = [g \in Goroutines |-> "idle"]
    /\ mu = ""
    /\ frame = [g \in Goroutines |-> NoFrame]
    /\ notifiers = << >>
    /\ ret = NoReturn

\* the ticker period passes while Run waits in its select
ScenarioAdvance ==
    /\ runState = "running"
    /\ now = lastCheck
    /\ now + CheckIntervalSeconds * TicksPerSecond <= ScenarioEnd
    /\ now' = now + CheckIntervalSeconds * TicksPerSecond
    /\ calls' = << >>
    /\ UNCHANGED <<users, usage_log, time_extensions, sessions, warningsSent,
                   activeSessions, lastCheck, runState, stopClosed, ctxDone, sent,
                   failures, pc, mu, frame, notifiers, ret>>

ScenarioNext ==
    \/ RunStart({})
    \/ RunTick({})
    \/ ScenarioAdvance
    \/ Login("alice")

ScenarioSpec == ScenarioInit /\ [][ScenarioNext]_vars

\* the positions in the calls of the cycle that just ran of the calls of op
\* for alice
AliceCalls(op) == {i \in DOMAIN calls' : calls'[i].op = op /\ calls'[i].user = "alice"}

\* what the cycle that just ran read as alice's remaining minutes; -1 when it
\* did not read them
RemainingRead ==
    IF AliceCalls("GetRemainingMinutes") = {} THEN -1
    ELSE calls'[CHOOSE i \in AliceCalls("GetRemainingMinutes") : TRUE].arg

\* the warning for this threshold has been sent once on the day of the cycle
SentOnceToday(interval) ==
    /\ sent'[<<"alice", interval>>].date = Today(now')
    /\ sent'[<<"alice", interval>>].count = 1

\* C24: with limit 120 and thresholds [5, 1], a user who stays logged in gets
\* the 5-minute warning exactly once, in the cycle that reads remaining 5, and
\* the 1-minute warning exactly once, in the cycle that reads remaining 1; a
\* cycle that reads remaining 0 sends the lock notice and then calls
\* LockUserSessions, and from then on no warning is sent on that day
C24_ScenarioWarnsOnceThenLocks ==
    [][CycleStep =>
          /\ \A i \in AliceCalls("SendWarning") :
                /\ calls'[i].arg = calls'[i].interval
                /\ calls'[i].arg = RemainingRead
          /\ RemainingRead \in 1..5 => SentOnceToday(5)
          /\ RemainingRead = 1 => SentOnceToday(1)
          /\ \A k \in DOMAIN sent' : sent'[k].count <= 1
          /\ RemainingRead = 0 =>
                /\ AliceCalls("SendWarning") = {}
                /\ \E i \in AliceCalls("SendLockNotice"), j \in AliceCalls("LockUserSessions") :
                      i < j
          /\ RemainingRead > 0 => AliceCalls("LockUserSessions") = {}
          /\ (/\ "alice" \in sessions
              /\ GetRemainingMinutes(users, usage_log, time_extensions, 1, now) = 0
              /\ Today(lastCheck) = Today(now))
                => AliceCalls("SendWarning") = {}
      ]_vars

\* the child logged in at 21:59, was warned once at 5 and once at 1 minute,
\* and is being locked after 120 credited minutes
C24_Witness ==
    /\ \E i \in DOMAIN calls : calls[i].op = "LockUserSessions"
    /\ GetTodayUsageSeconds(usage_log, 1, now) = ScenarioLimit * SecondsPerMinute
    /\ sent[<<"alice", 5>>] = [date |-> Today(now), count |-> 1]
    /\ sent[<<"alice", 1>>] = [date |-> Today(now), count |-> 1]


----------------------------------------------------------------------------
(* Storage.CreateUser and the UNIQUE constraint on users.username. No user  *)
(* is deleted here, so the AUTOINCREMENT id is the largest id plus one.     *)

\* the most rows of users
MaxUsers == 3

\* the usernames and limits of the create requests; SQLite compares TEXT
\* byte by byte, "Alice" is not "alice"
CreateNames == {"alice", "Alice", "bob"}
CreateLimits == {90, 120}

\* the rows of users with this username
RowsNamed(tbl, username) == {id \in DOMAIN tbl : tbl[id].Username = username}

\* the id an INSERT into users gets
NextUserID(tbl) ==
    IF DOMAIN tbl = {} THEN 1
    ELSE 1 + CHOOSE id \in DOMAIN tbl : \A other \in DOMAIN tbl : other <= id

\* the row of a new user: enabled INTEGER NOT NULL DEFAULT 1
NewUserRow(tbl, username, dailyLimitMins) ==
    [id \in DOMAIN tbl \cup {NextUserID(tbl)} |->
        IF id \in DOMAIN tbl THEN tbl[id]
        ELSE [Username |-> username, DailyLimitMins |-> dailyLimitMins,
              Enabled |-> TRUE]]

\* an INSERT into a users table without the UNIQUE constraint
InsertUser_NoUnique(tbl, username, dailyLimitMins, ok) ==
    IF ~ok THEN [users |-> tbl, err |-> TRUE, id |-> 0]
    ELSE [users |-> NewUserRow(tbl, username, dailyLimitMins), err |-> FALSE,
          id |-> NextUserID(tbl)]

\* INSERT INTO users (username, daily_limit_mins) VALUES (?, ?): fails when
\* the database fails (~ok) or a row with the username exists
InsertUser(tbl, username, dailyLimitMins, ok) ==
    IF ~ok \/ RowsNamed(tbl, username) # {}
    THEN [users |-> tbl, err |-> TRUE, id |-> 0]
    ELSE [users |-> NewUserRow(tbl, username, dailyLimitMins), err |-> FALSE,
          id |-> NextUserID(tbl)]

\* Storage.CreateUser
CreateUser(username, dailyLimitMins, ok) ==
    /\ Cardinality(DOMAIN users) < MaxUsers
    /\ LET r == InsertUser(users, username, dailyLimitMins, ok)
       IN  /\ users' = r.users
           /\ ret' = [op |-> "CreateUser", username |-> username,
                      dailyLimitMins |-> dailyLimitMins, err |-> r.err,
                      id |-> r.id]
    /\ calls' = << >>
    /\ UNCHANGED <<now, usage_log, time_extensions, sessions, warningsSent,
                   activeSessions, lastCheck, runState, stopClosed, ctxDone, sent,
                   failures, pc, mu, frame, notifiers>>

UsersNext ==
    \/ \E username \in CreateNames, limit \in CreateLimits, ok \in BOOLEAN :
          CreateUser(username, limit, ok)
    \/ \E id \in DOMAIN users, limit \in CreateLimits, enabled \in BOOLEAN :
          apiUpdateUser(id, limit, enabled)

UsersSpec == StoreInit /\ [][UsersNext]_vars

\* a step in which CreateUser returned
CreateReturned == ret'.op = "CreateUser" /\ ret' # ret

\* no two rows of this table have the same username
UniqueUsernames(tbl) ==
    \A i, j \in DOMAIN tbl : tbl[i].Username = tbl[j].Username => i = j

\* C25: usernames are unique among the users; CreateUser with a username
\* that exists returns an error and leaves the users as they are, the
\* existing user keeping id and limit
C25_DuplicateUsernameRejected ==
    [][CreateReturned =>
          /\ UniqueUsernames(users')
          /\ RowsNamed(users, ret'.username) # {} => ret'.err /\ users' = users
          /\ ret'.err => users' = users
          /\ ~ret'.err =>
                /\ ret'.id \notin DOMAIN users
                /\ RowsNamed(users', ret'.username) = {ret'.id}
                /\ \A id \in DOMAIN users : users'[id] = users[id]
      ]_vars

\* CreateUser("alice", 90) was refused while alice
\* exists with another limit, beside users created later
C25_Witness ==
    /\ ret.op = "CreateUser"
    /\ ret.username = "alice" /\ ret.dailyLimitMins = 90
    /\ ret.err
    /\ Cardinality(DOMAIN users) = 2
    /\ users[1].Username = "alice" /\ users[1].DailyLimitMins # 90
    /\ users[2].Username = "Alice"


----------------------------------------------------------------------------
(* internal/dbus: LogindClient.LockUserSessions over the listed sessions.   *)

\* the most sessions logind lists
MaxSessions == 3

\* the session lists of up to MaxSessions sessions; the ID of a session is
\* its position in the list
RECURSIVE SessionLists(_)
SessionLists(n) ==
    IF n = 0 THEN {<< >>}
    ELSE LET shorter == SessionLists(n - 1)
         IN  shorter \cup
             {Append(l, [ID |-> Len(l) + 1, UserName |-> u]) :
                 l \in {x \in shorter : Len(x) = n - 1}, u \in Usernames}

\* the loop of LockUserSessions over the sessions from position i on:
\* LockSession for the sessions of username, return at the first error
RECURSIVE LockLoop(_, _, _, _, _)
LockLoop(listed, username, failing, i, locked) ==
    IF i > Len(listed) THEN [err |-> FALSE, locked |-> locked]
    ELSE IF listed[i].UserName = username
         THEN IF listed[i].ID \in failing
              THEN [err |-> TRUE, locked |-> locked]
              ELSE LockLoop(listed, username, failing, i + 1,
                            Append(locked, listed[i].ID))
         ELSE LockLoop(listed, username, failing, i + 1, locked)

\* LogindClient.LockUserSessions; listOk says whether ListSessions works,
\* failing holds the IDs of the sessions for which LockSession fails
LockUserSessions(username, listed, failing, listOk) ==
    /\ ret' = [op |-> "LockUserSessions", username |-> username,
               listed |-> listed, failing |-> failing, listOk |-> listOk]
              @@ (IF ~listOk THEN [err |-> TRUE, locked |-> << >>]
                  ELSE LockLoop(listed, username, failing, 1, << >>))
    /\ UNCHANGED <<now, users, usage_log, time_extensions, sessions,
                   warningsSent, activeSessions, lastCheck, runState,
                   stopClosed, ctxDone, calls, sent, failures, pc, mu, frame,
                   notifiers>>

LogindNext ==
    \E username \in Usernames, listed \in SessionLists(MaxSessions),
       listOk \in BOOLEAN :
       \E failing \in SUBSET {listed[i].ID : i \in DOMAIN listed} :
          LockUserSessions(username, listed, failing, listOk)

LogindSpec == Init /\ [][LogindNext]_vars

\* the IDs LockUserSessions locked
LockedIDs == {ret.locked[i] : i \in DOMAIN ret.locked}

\* every locked session is a listed session of the user, locked once, and
\* nothing is locked and the error is returned when the listing fails
LocksOnlyOwnSessions ==
    ret.op = "LockUserSessions" =>
        /\ \A id \in LockedIDs : ret.listed[id].UserName = ret.username
        /\ Cardinality(LockedIDs) = Len(ret.locked)
        /\ ~ret.listOk => ret.err /\ ret.locked = << >>

\* C27: LockUserSessions(username) locks every listed session of username
\* that can be locked and no session of another user; when the listing fails
\* it returns the error and locks nothing
C27_LocksEverySessionOfUser ==
    ret.op = "LockUserSessions" =>
        /\ ret.listOk =>
              \A i \in DOMAIN ret.listed :
                 (ret.listed[i].UserName = ret.username
                    /\ ret.listed[i].ID \notin ret.failing)
                     <=> ret.listed[i].ID \in LockedIDs
        /\ ~ret.listOk => ret.err /\ ret.locked = << >>


----------------------------------------------------------------------------
(* Run statement by statement with Stop and the cancellation of the         *)
(* context arriving at any moment, also in the middle of a cycle.           *)

\* a loop that follows the stop signal from the middle of a cycle
SelectStop_MidCycle ==
    /\ runState = "running"
    /\ stopClosed
    /\ runState' = "returned"
    /\ pc' = [pc EXCEPT !["run"] = "idle"]
    /\ calls' = <<>>
    /\ UNCHANGED <<now, users, usage_log, time_extensions, sessions, warningsSent,
                   activeSessions, lastCheck, stopClosed, ctxDone, sent,
                   failures, mu, frame, notifiers, ret>>

\* the select of Run, reached when s.check has returned: case <-s.stop
SelectStop ==
    /\ pc["run"] = "idle"
    /\ RunStop

\* the select of Run, reached when s.check has returned: case <-ctx.Done()
SelectCancel ==
    /\ pc["run"] = "idle"
    /\ RunCancel

ShutdownNext ==
    \/ CheckEnter("run")
    \/ CheckSetLastCheck("run")
    \/ CheckReset("run")
    \/ CheckListUsers("run")
    \/ CheckListSessions("run")
    \/ CheckNextUser("run")
    \/ CheckTrack("run")
    \/ CheckRemaining("run")
    \/ CheckExpired("run")
    \/ CheckWarningsLock("run")
    \/ CheckInterval("run")
    \/ CheckSendWarning("run")
    \/ SelectStop
    \/ SelectCancel
    \/ Stop
    \/ StopReturn
    \/ Cancel
    \/ \E d \in Deltas : Quiet /\ Advance(d)
    \/ Quiet /\ Login("alice")
    \/ Quiet /\ Logout("alice")

ShutdownSpec == Init /\ [][ShutdownNext]_vars

\* a goroutine inside handleTimeExpired goes on: SendLockNotice, the three
\* seconds of time.Sleep and LockUserSessions each return
ShutdownFairSpec == ShutdownSpec /\ WF_vars(CheckExpired("run"))

\* the cycle of Run has sent the lock notice and not yet called LockUserSessions
LockPending == pc["run"] \in {"Sleep", "LockUserSessions"}

\* the latest step called LockUserSessions
LockIssued == \E i \in DOMAIN calls : calls[i].op = "LockUserSessions"

\* C26: Stop and the cancellation of the context are seen between cycles
\* only: a cycle that has sent the lock notice leaves handleTimeExpired only
\* by calling LockUserSessions, which it does even when s.stop is closed or
\* the context is done, and Run returns only from outside a cycle
C26_ShutdownBetweenCycles ==
    /\ [][/\ LockPending => (LockPending' \/ LockIssued')
          /\ pc["run"] # "idle" => runState' = runState
          /\ runState' = "returned" => pc'["run"] = "idle"
          /\ pc'["stop"] = "returned" => runState' = "returned" /\ pc'["run"] = "idle"
         ]_vars
    /\ (LockPending ~> LockIssued)

\* the lock call was made while Stop was waiting for Run and the context
\* was already cancelled
C26_Witness ==
    /\ LockIssued
    /\ stopClosed /\ ctxDone
    /\ pc["stop"] = "waiting"
    /\ runState = "running"


----------------------------------------------------------------------------
(* Cycles one after the other at any distance, also none, and after the     *)
(* clock of the host was set back.                                          *)

\* how far the clock moves between two cycles, forward or set back
BackDeltas == {30 * TicksPerSecond + 1}

\* the calls whose failure makes an accrual fail or aborts the cycle
AccrualFailureSets ==
    {F \in FailureSets(users) :
        F \subseteq {<<"ListUsers", "">>, <<"ListSessions", "">>,
                     <<"AddUsageTime", "alice">>}}

\* the seconds recorded for user id on all days
RECURSIVE UsedOnDays(_, _, _)
UsedOnDays(log, id, days) ==
    IF days = {} THEN 0
    ELSE LET d == CHOOSE x \in days : TRUE
         IN  (IF <<id, d>> \in DOMAIN log THEN log[<<id, d>>] ELSE 0)
             + UsedOnDays(log, id, days \ {d})

UsedOnAllDays(log, id) == UsedOnDays(log, id, {k[2] : k \in DOMAIN log})

\* Scheduler.ForceCheck, called while no other cycle runs
ForceCheck(F) ==
    /\ runState = "running"
    /\ check(F)
    /\ UNCHANGED <<runState, stopClosed, ctxDone>>

\* the wall clock of the host is set back between two cycles
ClockBack(d) ==
    /\ now = lastCheck
    /\ now - d >= StartTime
    /\ UsedOnAllDays(usage_log, 1) < SecondsPerMinute
    /\ now' = now - d
    /\ calls' = << >>
    /\ UNCHANGED <<users, usage_log, time_extensions, sessions, warningsSent,
                   activeSessions, lastCheck, runState, stopClosed, ctxDone, sent,
                   failures, pc, mu, frame, notifiers, ret>>

AccrualNext ==
    \/ \E F \in AccrualFailureSets : RunStart(F)
    \/ \E F \in AccrualFailureSets : ForceCheck(F)
    \/ \E d \in BackDeltas : Advance(d)
    \/ \E d \in BackDeltas : ClockBack(d)
    \/ Login("alice")
    \/ Logout("alice")

AccrualSpec == Init /\ [][AccrualNext]_vars

\* a step that is a check cycle
CycleRan == Len(calls') >= 1 /\ calls'[1].op = "ListUsers"

\* the positions of the AddUsageTime calls of the cycle that just ran
Accruals == {i \in DOMAIN calls' : calls'[i].op = "AddUsageTime"}

\* C28: every cycle, failed or aborted ones too, becomes the baseline of the
\* next one, so a cycle after a failed cycle asks to credit the seconds since
\* that cycle's timestamp and the failed interval is never credited; a failed
\* accrual or an aborted cycle writes no usage; no cycle credits a negative
\* number of seconds, and with an elapsed time of zero or below there is no
\* accrual at all
C28_FreshBaselineAfterFailure ==
    [][CycleRan =>
          /\ lastCheck' = now'
          /\ \A i \in Accruals :
                /\ calls'[i].arg >= 0
                /\ lastCheck # ZeroTime => calls'[i].arg = Seconds(now' - lastCheck)
                /\ ~calls'[i].ok =>
                      \A id \in DOMAIN users :
                         users[id].Username = calls'[i].user => UsageKept(id)
          /\ ~(calls'[1].ok /\ Len(calls') >= 2 /\ calls'[2].ok) => usage_log' = usage_log
          /\ (lastCheck # ZeroTime /\ now' - lastCheck <= 0) =>
                Accruals = {} /\ usage_log' = usage_log
          /\ \A id \in DOMAIN users :
                UsedOnAllDays(usage_log', id) - UsedOnAllDays(usage_log, id)
                   = SumCredited(calls', users[id].Username)
      ]_vars

\* alice's session is tracked since a cycle that made her first accrual call,
\* and all her recorded usage is the interval of the cycle that just ran: the
\* accrual of the earlier cycle failed and its interval was not credited now
C28_Witness ==
    /\ IsCycle
    /\ lastCheck = now
    /\ "alice" \in DOMAIN activeSessions
    /\ activeSessions["alice"] < now
    /\ UsedOnAllDays(usage_log, 1) = Seconds(now - activeSessions["alice"])
    /\ \E i \in DOMAIN calls :
          /\ calls[i].op = "AddUsageTime" /\ calls[i].ok
          /\ calls[i].arg = Seconds(now - activeSessions["alice"])
          /\ calls[i].arg >= CheckIntervalSeconds


----------------------------------------------------------------------------
(* A household of two tracked children, alice with 2 minutes a day and bob  *)
(* with 1, whose cycles meet failing dependencies.                          *)

PairInit ==
    /\ now = StartTime
    /\ users = [id \in UserIDs |->
                  [Username |-> NameOrder[id],
                   DailyLimitMins |-> IF id = 1 THEN 2 ELSE 1,
                   Enabled |-> TRUE]]
    /\ usage_log = << >>
    /\ time_extensions = << >>
    /\ sessions = {}
    /\ warningsSent = << >>
    /\ activeSessions = << >>
    /\ lastCheck = ZeroTime
    /\ runState = "idle"
    /\ stopClosed = FALSE
    /\ ctxDone = FALSE
    /\ calls = << >>
    /\ sent = [k \in Usernames \X {WarningIntervals[i] : i \in 1..Len(WarningIntervals)} |->
                  [date |-> 0, count |-> 0]]
    /\ failures = {}
    /\ pc = [g \in Goroutines |-> "idle"]
    /\ mu = ""
    /\ frame = [g \in Goroutines |-> NoFrame]
    /\ notifiers = << >>
    /\ ret = NoReturn

\* no call of the cycle fails, or one of them does
PairFailureSets == {{}} \cup {{p} : p \in FailPoints(users)}

PairNext ==
    \/ \E F \in PairFailureSets : RunStart(F)
    \/ \E F \in PairFailureSets : RunTick(F)
    \/ \E d \in BackDeltas : Advance(d)
    \/ \E u \in Usernames : Login(u)

PairSpec == PairInit /\ [][PairNext]_vars

\* the calls of op made for username by the cycle that just ran
CycleCalls(op, username) ==
    {i \in DOMAIN calls' : calls'[i].op = op /\ calls'[i].user = username}

\* the users of the calls that failed in the cycle that just ran
FailedFor == {calls'[i].user : i \in {j \in DOMAIN calls' : ~calls'[j].ok}}

\* the enabled users with a session for whom no call of the cycle failed
Unaffected ==
    ({users[id].Username : id \in {i \in DOMAIN users : users[i].Enabled}}
        \cap sessions) \ FailedFor

\* the cycle that just ran accrued username and evaluated the remaining
\* budget it read afterwards: the lock notice and the lock at 0, otherwise
\* every threshold not above the budget is marked as warned
FullyChecked(username) ==
    /\ \E i \in CycleCalls("AddUsageTime", username),
          j \in CycleCalls("GetRemainingMinutes", username) : i < j
    /\ \A j \in CycleCalls("GetRemainingMinutes", username) :
          IF calls'[j].arg <= 0
          THEN \E n \in CycleCalls("SendLockNotice", username),
                  l \in CycleCalls("LockUserSessions", username) : j < n /\ n < l
          ELSE \A k \in DOMAIN WarningIntervals :
                  calls'[j].arg <= WarningIntervals[k]
                     => WarningSent(warningsSent', username, WarningIntervals[k])

\* C29 as stated: whichever dependency call fails in a cycle, ListUsers and
\* ListSessions included, every other enabled logged-in user is still
\* accrued and evaluated for warnings and lock in that cycle
C29_CycleContinuesAfterAnyFailure ==
    [][(CycleRan /\ FailedFor # {}) =>
          \A username \in Unaffected : FullyChecked(username)
      ]_vars

\* the cycle that just ran obtained the users and the sessions
ListingsWorked ==
    /\ calls'[1].ok
    /\ Len(calls') >= 2 /\ calls'[2].op = "ListSessions" /\ calls'[2].ok

\* C29: when a call made for one user fails in a cycle (AddUsageTime,
\* GetRemainingMinutes, SendLockNotice, SendWarning, LockUserSessions), every
\* other enabled logged-in user is still accrued and evaluated for warnings
\* and lock in that cycle; when ListUsers or ListSessions fails the cycle ends
\* there, with no call and no change for any user
C29_CycleContinuesAfterUserFailure ==
    [][(CycleRan /\ FailedFor # {}) =>
          IF ListingsWorked
          THEN \A username \in Unaffected : FullyChecked(username)
          ELSE /\ \A i \in DOMAIN calls' : calls'[i].user = ""
               /\ UNCHANGED <<usage_log, activeSessions, sent>>
      ]_vars

\* alice's accrual failed, and bob was accrued, found without budget and
\* locked in the same cycle
C29_Witness ==
    /\ IsCycle
    /\ \E i \in DOMAIN calls :
          calls[i].op = "AddUsageTime" /\ calls[i].user = "alice" /\ ~calls[i].ok
    /\ \E i \in DOMAIN calls :
          calls[i].op = "AddUsageTime" /\ calls[i].user = "bob" /\ calls[i].ok
    /\ \E i \in DOMAIN calls :
          calls[i].op = "LockUserSessions" /\ calls[i].user = "bob"
    /\ lastCheck > StartTime


----------------------------------------------------------------------------
\* the positions of check between the accrual of the user at hand and the end
\* of the warning or lock decision for that user
AfterAccrual == {"GetRemainingMinutes", "SendLockNotice", "Sleep",
                 "LockUserSessions", "checkWarnings", "interval", "SendWarning"}

\* the step is one of goroutine g
StepOf(g) == pc'[g] # pc[g] \/ frame'[g] # frame[g]

\* in every cycle the remaining budget of a user is read right after the
\* accrual step for that user, and the decision follows that read and takes
\* the value it returned: the lock at 0, the warnings above
AccrualReadDecisionInOrder ==
    \A g \in Checkers :
       /\ (pc'[g] = "GetRemainingMinutes" /\ StepOf(g)) => pc[g] = "track"
       /\ (pc'[g] \in {"SendLockNotice", "checkWarnings"} /\ StepOf(g)) =>
             /\ pc[g] = "GetRemainingMinutes"
             /\ frame'[g].remaining =
                   GetRemainingMinutes(users, usage_log, time_extensions,
                                       CheckUserID(g), now)
             /\ pc'[g] = "SendLockNotice" <=> frame'[g].remaining <= 0
       /\ (pc[g] \in {"interval", "SendWarning"} /\ StepOf(g)) =>
             frame'[g].remaining = frame[g].remaining \/ pc'[g] = "user"

\* another cycle takes a step for the user whom the cycle of g has accrued
\* and not yet finished deciding about
InterleavedStep ==
    \E g \in Checkers, h \in Checkers :
       /\ h # g
       /\ pc[g] \in AfterAccrual
       /\ pc[h] \in AfterAccrual \cup {"track"}
       /\ frame[h].user = frame[g].user
       /\ StepOf(h)

\* C30: within a cycle and for each user the accrual comes before the read of
\* the remaining budget, the read before the warning or lock decision, the
\* decision takes the value read after this cycle's accrual, and no step of
\* another cycle for the same user comes in between
C30_AccrueReadDecideUninterleaved ==
    [][AccrualReadDecisionInOrder /\ ~InterleavedStep]_vars

\* the order of accrual, read and decision within each cycle
OrderWithinCycle == [][AccrualReadDecisionInOrder]_vars

----------------------------------------------------------------------------
(* One warning evaluation on its own: Scheduler.checkWarnings called with   *)
(* every remaining value around the configured thresholds, on every dedup   *)
(* state that earlier passes and ResetWarnings leave behind.                *)

\* the longest threshold list the order of which is permuted
MaxThresholds == 3

\* the values a threshold list is made of
ThresholdValues == {1, 5, 10}

\* the remaining minutes a pass is called with: check calls it with
\* remaining > 0 only (part_004:142-147)
WarnRemaining == 1 .. 6

\* the threshold lists of a configuration
ThresholdLists == UNION {[1 .. n -> ThresholdValues] : n \in 0 .. MaxThresholds}

\* the loop of checkWarnings over a given list of intervals, from index i:
\* the dedup set of the user after it and the payloads of the SendWarning
\* calls in the order they are made
RECURSIVE WarningPass(_, _, _, _, _)
WarningPass(intervals, set, remaining, i, payloads) ==
    IF i > Len(intervals) THEN [set |-> set, payloads |-> payloads]
    ELSE IF remaining <= intervals[i] /\ intervals[i] \notin set
         THEN WarningPass(intervals, set \cup {intervals[i]}, remaining, i + 1,
                          Append(payloads, remaining))
         ELSE WarningPass(intervals, set, remaining, i + 1, payloads)

\* Scheduler.checkWarnings(ctx, username, remaining) called once
WarnPass(username, remaining, F) ==
    LET st0 == CycleState(usage_log, activeSessions, warningsSent, <<>>, sent)
        st == checkWarnings(st0, username, remaining, now, F)
    IN  /\ warningsSent' = st.ws
        /\ calls' = st.calls
        /\ sent' = st.sent
        /\ ret' = [op |-> "checkWarnings", user |-> username,
                   remaining |-> remaining, before |-> warningsSent]
        /\ UNCHANGED <<now, users, usage_log, time_extensions, sessions,
                       activeSessions, lastCheck, runState, stopClosed, ctxDone,
                       failures, pc, mu, frame, notifiers>>

\* the configured thresholds
Thresholds == {WarningIntervals[i] : i \in DOMAIN WarningIntervals}

\* the dedup sets that passes leave behind: the thresholds at or above a
\* remaining value, or none
PassedSets == {{t \in Thresholds : r <= t} : r \in WarnRemaining}

\* the scheduler after some cycles: every user has no dedup set or one that
\* passes have left
WarnInit ==
    /\ now = StartTime
    /\ users = [id \in UserIDs |->
                  [Username |-> NameOrder[id],
                   DailyLimitMins |-> IF id = 1 THEN 2 ELSE 6,
                   Enabled |-> (id = 1)]]
    /\ usage_log = << >>
    /\ time_extensions = << >>
    /\ sessions = {}
    /\ \E D \in SUBSET Usernames : warningsSent \in [D -> PassedSets]
    /\ activeSessions = << >>
    /\ lastCheck = ZeroTime
    /\ runState = "idle"
    /\ stopClosed = FALSE
    /\ ctxDone = FALSE
    /\ calls = << >>
    /\ sent = [k \in Usernames \X Thresholds |-> [date |-> 0, count |-> 0]]
    /\ failures = {}
    /\ pc = [g \in Goroutines |-> "idle"]
    /\ mu = ""
    /\ frame = [g \in Goroutines |-> NoFrame]
    /\ notifiers = << >>
    /\ ret = NoReturn

WarnNext ==
    \E u \in Usernames, r \in WarnRemaining :
       \E F \in {{}, {<<"SendWarning", u>>}} : WarnPass(u, r, F)

WarnSpec == WarnInit /\ [][WarnNext]_vars

\* the latest operation was a warning evaluation
WarnPassed == ret.op = "checkWarnings"

\* the thresholds that qualify in the latest pass
Qualifying ==
    {t \in Thresholds : ret.remaining <= t
                        /\ t \notin DedupSet(ret.before, ret.user)}

\* the two lists hold the same thresholds, each as often as the other
SameThresholds(o1, o2) ==
    /\ Len(o1) = Len(o2)
    /\ \A v \in ThresholdValues :
          Cardinality({i \in DOMAIN o1 : o1[i] = v})
            = Cardinality({i \in DOMAIN o2 : o2[i] = v})

\* the result of a pass is the same for every order of the same thresholds
OrderIndependent ==
    \A o1 \in ThresholdLists :
       \A o2 \in {o \in ThresholdLists : SameThresholds(o1, o)} :
          WarningPass(o1, DedupSet(ret.before, ret.user), ret.remaining, 1, <<>>)
            = WarningPass(o2, DedupSet(ret.before, ret.user), ret.remaining, 1, <<>>)

\* C31: after one pass of checkWarnings with remaining r > 0, every configured
\* threshold t with r <= t that was not in the user's dedup set has got exactly
\* one SendWarning with payload r and is in the set now; nothing else was sent,
\* no other threshold and no other user's set has changed; and the pass over
\* any other order of the same thresholds gives the same set and the same
\* payloads.
C31_PassFiresEveryQualifyingThreshold ==
    WarnPassed =>
       /\ \A t \in Qualifying :
             Cardinality({i \in DOMAIN calls :
                            calls[i] = Call("SendWarning", ret.user, ret.remaining, t,
                                            calls[i].ok)}) = 1
       /\ Len(calls) = Cardinality(Qualifying)
       /\ DedupSet(warningsSent, ret.user)
            = DedupSet(ret.before, ret.user) \cup Qualifying
       /\ \A u \in Usernames \ {ret.user} :
             /\ u \in DOMAIN warningsSent <=> u \in DOMAIN ret.before
             /\ DedupSet(warningsSent, u) = DedupSet(ret.before, u)
       /\ LET p == WarningPass(WarningIntervals, DedupSet(ret.before, ret.user),
                               ret.remaining, 1, <<>>)
          IN  /\ p.set = DedupSet(warningsSent, ret.user)
              /\ p.payloads = [i \in DOMAIN calls |-> calls[i].arg]
       /\ OrderIndependent

\* a pass with remaining 1 that left threshold 5 alone, which was in the set
\* already, and fired threshold 1, the SendWarning of which failed
C31_Witness ==
    /\ WarnPassed
    /\ ret.remaining = 1
    /\ DedupSet(ret.before, ret.user) = {5}
    /\ Len(calls) = 1
    /\ ~calls[1].ok
    /\ DedupSet(warningsSent, ret.user) = {1, 5}

----------------------------------------------------------------------------
(* ResetWarnings among warning evaluations of two users.                    *)

ResetNext ==
    \/ \E u \in Usernames, r \in WarnRemaining : WarnPass(u, r, {})
    \/ \E u \in Usernames : ResetWarnings(u)

ResetSpec == WarnInit /\ [][ResetNext]_vars

\* what ResetWarnings(username) is to leave as it is
ResetFrame(username) ==
    /\ \A v \in Usernames \ {username} :
          /\ v \in DOMAIN warningsSent' <=> v \in DOMAIN warningsSent
          /\ DedupSet(warningsSent', v) = DedupSet(warningsSent, v)
    /\ activeSessions' = activeSessions
    /\ lastCheck' = lastCheck
    /\ users' = users
    /\ usage_log' = usage_log
    /\ time_extensions' = time_extensions

\* C32: ResetWarnings(u) removes the warning dedup set of u and of nobody
\* else: afterwards u has no set, every other user has the set it had, and the
\* active-session map, lastCheck, the users, the usage records and the
\* extension ledger are unchanged; when u had no set the whole dedup state is
\* unchanged.
C32_ResetClearsOneUser ==
    [][\A u \in Usernames :
          ResetWarnings(u) =>
             /\ u \notin DOMAIN warningsSent'
             /\ ResetFrame(u)
             /\ (u \notin DOMAIN warningsSent => warningsSent' = warningsSent)]_vars

\* alice's set, which her latest warning evaluation had left, has been
\* removed while bob still has the thresholds marked for him
C32_Witness ==
    /\ WarnPassed
    /\ ret.user = "alice"
    /\ "alice" \notin DOMAIN warningsSent
    /\ "bob" \in DOMAIN warningsSent
    /\ warningsSent["bob"] = {1, 5}

----------------------------------------------------------------------------
(* The store over a change of the calendar day: records of usage and of     *)
(* extensions are written on one day and read on the next.                  *)

\* the daily limits of the user: UpdateUser stores the number it is given,
\* and apiUpdateUser passes the number of the request on as it is
DayLimits == {-1, 0, 2}

StoreGetTodayUsageSeconds(id) ==
    /\ calls' = << Call("GetTodayUsageSeconds", users[id].Username,
                        GetTodayUsageSeconds(usage_log, id, now), 0, TRUE) >>
    /\ UNCHANGED <<now, users, usage_log, time_extensions, sessions, warningsSent,
                   activeSessions, lastCheck, runState, stopClosed, ctxDone, sent,
                   failures, pc, mu, frame, notifiers, ret>>

StoreGetTodayExtensions(id) ==
    /\ calls' = << Call("GetTodayExtensions", users[id].Username,
                        GetTodayExtensions(time_extensions, id, now), 0, TRUE) >>
    /\ UNCHANGED <<now, users, usage_log, time_extensions, sessions, warningsSent,
                   activeSessions, lastCheck, runState, stopClosed, ctxDone, sent,
                   failures, pc, mu, frame, notifiers, ret>>

\* UpdateUser(id, dailyLimitMins, enabled) called on the store
StoreUpdateUser(id, dailyLimitMins) ==
    /\ users' = UpdateUser(users, id, dailyLimitMins, users[id].Enabled)
    /\ calls' = << Call("UpdateUser", users[id].Username, dailyLimitMins, 0, TRUE) >>
    /\ UNCHANGED <<now, usage_log, time_extensions, sessions, warningsSent,
                   activeSessions, lastCheck, runState, stopClosed, ctxDone, sent,
                   failures, pc, mu, frame, notifiers, ret>>

DayNext ==
    \/ \E s \in StoreSeconds : StoreAddUsageTime(1, s)
    \/ \E m \in StoreMinutes : StoreAddTimeExtension(1, m)
    \/ \E limit \in DayLimits : StoreUpdateUser(1, limit)
    \/ StoreGetTodayUsageSeconds(1)
    \/ StoreGetTodayExtensions(1)
    \/ StoreGetRemainingMinutes(1)
    \/ StoreNextDay

DaySpec == StoreInit /\ [][DayNext]_vars

\* the calendar day is no longer the one the store was opened on
DateChanged == Today(now) # Today(StartTime)

\* rows written for the user before the day of t
RecordedEarlier(id, t) ==
    /\ \E k \in DOMAIN usage_log : k[1] = id /\ k[2] < Today(t)
    /\ \E i \in DOMAIN time_extensions :
          time_extensions[i].user_id = id /\ time_extensions[i].date < Today(t)

\* no AddUsageTime and no AddTimeExtension has written a row for the user on
\* the day of t
NothingRecordedOn(id, t) ==
    /\ <<id, Today(t)>> \notin DOMAIN usage_log
    /\ \A i \in DOMAIN time_extensions :
          time_extensions[i].user_id = id => time_extensions[i].date # Today(t)

\* the values that the latest read of the user returned
ReadResults(op, id) == {calls[i].arg : i \in CallsOf(op, users[id].Username)}

\* the reads of today's usage and of today's extensions return 0
TodayReadsAreZero(id) ==
    /\ ReadResults("GetTodayUsageSeconds", id) \subseteq {0}
    /\ ReadResults("GetTodayExtensions", id) \subseteq {0}

C33_NewDayReturnsBaseLimit ==
    \A id \in DOMAIN users :
       DateChanged /\ NothingRecordedOn(id, now) =>
          /\ TodayReadsAreZero(id)
          /\ ReadResults("GetRemainingMinutes", id) \subseteq {users[id].DailyLimitMins}

\* C33: usage and extensions are scoped to the calendar day. After the date
\* has changed and until AddUsageTime or AddTimeExtension records something
\* on the new day, GetTodayUsageSeconds and GetTodayExtensions return 0 and
\* GetRemainingMinutes returns the base daily limit, clamped at 0 when the
\* stored limit is negative, whatever was recorded on earlier days.
C33_NewDayReturnsClampedBaseLimit ==
    \A id \in DOMAIN users :
       DateChanged /\ NothingRecordedOn(id, now) =>
          /\ TodayReadsAreZero(id)
          /\ ReadResults("GetRemainingMinutes", id)
               \subseteq {IF users[id].DailyLimitMins < 0 THEN 0
                          ELSE users[id].DailyLimitMins}

\* on the new day the remaining minutes of a user, who used up the limit and
\* was granted an extension the day before, are read as the limit of 2
C33_Witness ==
    /\ DateChanged
    /\ NothingRecordedOn(1, now)
    /\ RecordedEarlier(1, now)
    /\ usage_log[<<1, Today(StartTime)>>] >= 2 * SecondsPerMinute
    /\ users[1].DailyLimitMins = 2
    /\ ReadResults("GetRemainingMinutes", 1) = {2}

----------------------------------------------------------------------------
(* The Active-Session map over the cycles of the engine.                    *)

\* the cycle of this step found username logged in and credits elapsed time
ObservedActive(username) ==
    /\ EnabledName(username)
    /\ username \in sessions
    /\ Sub(now, lastCheck) > 0

\* the AddUsageTime calls of the step for username: one call with the whole
\* seconds of elapsed when the cycle found the user active, none otherwise
CreditIsElapsed(username) ==
    LET made == {calls'[i].arg : i \in CallsOf("AddUsageTime", username)'}
    IN  /\ ObservedActive(username) =>
             /\ made = {Seconds(Sub(now, lastCheck))}
             /\ Cardinality(CallsOf("AddUsageTime", username)') = 1
        /\ ~ObservedActive(username) => made = {}

\* C34: in a check cycle that obtained the users and the sessions, an enabled
\* user found logged in with elapsed > 0 and without an Active-Session entry
\* gets an entry with the time of this cycle; an entry of a user found logged
\* in keeps its start time; the entry of an enabled user found logged out is
\* removed; and the seconds credited are those of elapsed, with or without an
\* entry in the map.
C34_ActiveSessionEntryLifecycle ==
    [][CycleListed' =>
         \A u \in Usernames :
            /\ ObservedActive(u) /\ u \notin DOMAIN activeSessions
                  => u \in DOMAIN activeSessions' /\ activeSessions'[u] = now
            /\ u \in sessions /\ u \in DOMAIN activeSessions => EntryKept(u)
            /\ EnabledName(u) /\ u \notin sessions => u \notin DOMAIN activeSessions'
            /\ CreditIsElapsed(u)]_vars

\* a cycle has credited the seconds since the cycle before to alice, whose
\* entry still holds the time of an earlier cycle
C34_Witness ==
    /\ CycleListed
    /\ "alice" \in DOMAIN activeSessions
    /\ activeSessions["alice"] < lastCheck
    /\ \E i \in CallsOf("AddUsageTime", "alice") :
          calls[i].arg \in 1 .. SecondsPerMinute

----------------------------------------------------------------------------
(* The extend-time request of the API with its response: the handler from   *)
(* the id of the URL and the body to the status and the remaining minutes   *)
(* that it reports.                                                         *)

\* the ids of the URL: of alice, of bob, of nobody, and not a number
IdStrings == {"1", "2", "3", "x"}

\* the minutes of the request body
RequestMinutes == {-1, 0, 1, 2}

\* strconv.ParseInt(idStr, 10, 64): the number, or 0 with an error
ParseInt(idStr) ==
    CASE idStr = "1" -> [n |-> 1, err |-> FALSE]
      [] idStr = "2" -> [n |-> 2, err |-> FALSE]
      [] idStr = "3" -> [n |-> 3, err |-> FALSE]
      [] OTHER -> [n |-> 0, err |-> TRUE]

\* the status codes of the responses
StatusOK == 200
StatusBadRequest == 400
StatusNotFound == 404
StatusInternalServerError == 500

\* what the handler answered: the request, the status, the remaining minutes
\* reported and the ledger as the request found it
ExtendResponse(idStr, minutes, status, remaining) ==
    [op |-> "apiExtendTime", id |-> idStr, minutes |-> minutes, status |-> status,
     remaining |-> remaining, before |-> time_extensions]

\* the request is answered without a call that writes
ExtendRejected(idStr, minutes, status) ==
    /\ ret' = ExtendResponse(idStr, minutes, status, 0)
    /\ calls' = <<>>
    /\ UNCHANGED <<time_extensions, sent, failures>>

\* a handler that reads the remaining minutes before it stores the extension
apiExtendTimeHTTP_ReadBeforeAppend(idStr, decoded, minutes, lookupOk, stored, notified, readOk) ==
    LET id == ParseInt(idStr).n
    IN  /\ IF ParseInt(idStr).err \/ ~decoded \/ minutes <= 0
           THEN ExtendRejected(idStr, minutes, StatusBadRequest)
           ELSE IF ~lookupOk \/ id \notin DOMAIN users
           THEN ExtendRejected(idStr, minutes, StatusNotFound)
           ELSE IF ~stored
           THEN /\ ret' = ExtendResponse(idStr, minutes, StatusInternalServerError, 0)
                /\ calls' = << Call("AddTimeExtension", users[id].Username,
                                    minutes, 0, FALSE) >>
                /\ UNCHANGED <<time_extensions, sent, failures>>
           ELSE /\ time_extensions' =
                      AddTimeExtension(time_extensions, id, minutes, "parent", now)
                /\ calls' = << Call("AddTimeExtension", users[id].Username,
                                    minutes, 0, TRUE),
                               Call("SendTimeExtended", users[id].Username,
                                    minutes, 0, notified),
                               Call("GetRemainingMinutes", users[id].Username,
                                    0, 0, readOk) >>
                /\ ret' = ExtendResponse(idStr, minutes, StatusOK,
                              IF readOk
                              THEN GetRemainingMinutes(users, usage_log,
                                                       time_extensions, id, now)
                              ELSE 0)
                /\ sent' = ForgetWarnings(sent, users[id].Username)
                /\ failures' = ForgetFailedWarnings(failures, users[id].Username)
        /\ UNCHANGED <<now, users, usage_log, sessions, warningsSent, activeSessions,
                       lastCheck, runState, stopClosed, ctxDone, pc, mu, frame,
                       notifiers>>

\* Server.apiExtendTime answering POST /api/users/{id}/extend: decoded tells
\* whether the body is JSON, lookupOk, stored, notified and readOk whether
\* GetUserByID, AddTimeExtension, SendTimeExtended and GetRemainingMinutes
\* return without an error
apiExtendTimeHTTP(idStr, decoded, minutes, lookupOk, stored, notified, readOk) ==
    LET id == ParseInt(idStr).n
    IN  /\ IF ParseInt(idStr).err \/ ~decoded \/ minutes <= 0
           THEN ExtendRejected(idStr, minutes, StatusBadRequest)
           ELSE IF ~lookupOk \/ id \notin DOMAIN users
           THEN ExtendRejected(idStr, minutes, StatusNotFound)
           ELSE IF ~stored
           THEN /\ ret' = ExtendResponse(idStr, minutes, StatusInternalServerError, 0)
                /\ calls' = << Call("AddTimeExtension", users[id].Username,
                                    minutes, 0, FALSE) >>
                /\ UNCHANGED <<time_extensions, sent, failures>>
           ELSE /\ time_extensions' =
                      AddTimeExtension(time_extensions, id, minutes, "parent", now)
                /\ calls' = << Call("AddTimeExtension", users[id].Username,
                                    minutes, 0, TRUE),
                               Call("SendTimeExtended", users[id].Username,
                                    minutes, 0, notified),
                               Call("GetRemainingMinutes", users[id].Username,
                                    0, 0, readOk) >>
                /\ ret' = ExtendResponse(idStr, minutes, StatusOK,
                              IF readOk
                              THEN GetRemainingMinutes(users, usage_log,
                                                       time_extensions', id, now)
                              ELSE 0)
                /\ sent' = ForgetWarnings(sent, users[id].Username)
                /\ failures' = ForgetFailedWarnings(failures, users[id].Username)
        /\ UNCHANGED <<now, users, usage_log, sessions, warningsSent, activeSessions,
                       lastCheck, runState, stopClosed, ctxDone, pc, mu, frame,
                       notifiers>>

\* what fails while a request is served: nothing, or one of the body, the
\* lookup of the user, the insert, the notification and the read of the
\* remaining minutes (in this order; FALSE marks the one that fails)
ExtendFaults ==
    {f \in [1 .. 5 -> BOOLEAN] : Cardinality({i \in 1 .. 5 : ~f[i]}) <= 1}

\* requests for an extension while usage is recorded for alice
ExtendNext ==
    \/ \E idStr \in IdStrings, minutes \in RequestMinutes, f \in ExtendFaults :
          /\ Len(time_extensions) < MaxGrants
          /\ apiExtendTimeHTTP(idStr, f[1], minutes, f[2], f[3], f[4], f[5])
    \/ \E s \in StoreSeconds : StoreAddUsageTime(1, s)

ExtendSpec == Init /\ [][ExtendNext]_vars

\* the step is a request for an extension
ExtendStep == calls' = <<>> \/ calls'[1].op = "AddTimeExtension"

\* the remaining budget of every user is what it was
BudgetsKept ==
    \A id \in DOMAIN users :
       GetRemainingMinutes(users', usage_log', time_extensions', id, now')
         = GetRemainingMinutes(users, usage_log, time_extensions, id, now)

\* the request of the step is one that the handler is to reject
ToBeRejected ==
    \/ ret'.minutes <= 0
    \/ ParseInt(ret'.id).err
    \/ ParseInt(ret'.id).n \notin DOMAIN users

\* C35: a request for an extension that is rejected (minutes not positive,
\* id not a number, no user of this id) is answered with an error status and
\* leaves the extension ledger and the remaining budget of every user as they
\* were. A request that succeeds has appended exactly one extension of the
\* requested minutes for the user of the id, and reports the remaining
\* minutes that GetRemainingMinutes returned after the append (0 when that
\* read failed), whether SendTimeExtended failed or not.
C35_ExtendRejectsOrAppendsOnce ==
    [][ExtendStep =>
         /\ ToBeRejected =>
               /\ ret'.status \in {StatusBadRequest, StatusNotFound}
               /\ time_extensions' = time_extensions
               /\ BudgetsKept
         /\ ret'.status \in {StatusBadRequest, StatusNotFound} =>
               /\ time_extensions' = time_extensions
               /\ BudgetsKept
         /\ ret'.status = StatusOK =>
               LET id == ParseInt(ret'.id).n
               IN  /\ ~ToBeRejected
                   /\ Len(time_extensions') = Len(time_extensions) + 1
                   /\ SubSeq(time_extensions', 1, Len(time_extensions)) = time_extensions
                   /\ time_extensions'[Len(time_extensions')].user_id = id
                   /\ time_extensions'[Len(time_extensions')].minutes = ret'.minutes
                   /\ time_extensions'[Len(time_extensions')].date = Today(now)
                   /\ ret'.remaining =
                        IF calls'[3].ok
                        THEN GetRemainingMinutes(users', usage_log', time_extensions',
                                                 id, now')
                        ELSE 0]_vars

\* an extension of 2 minutes was stored for alice, who had used up her limit,
\* the notification failed and the response reports the 2 minutes
C35_Witness ==
    /\ ret.op = "apiExtendTime"
    /\ ret.status = StatusOK
    /\ ret.id = "1"
    /\ ret.minutes = 2
    /\ ret.before = <<>>
    /\ Len(calls) = 3
    /\ ~calls[2].ok
    /\ calls[3].ok
    /\ GetTodayUsageSeconds(usage_log, 1, now) >= 2 * SecondsPerMinute
    /\ ret.remaining = 2

----------------------------------------------------------------------------
(* A user is deleted through the API while a check cycle is under way.      *)

\* rows of usage_log or time_extensions refer to the user
Referenced(id) ==
    \/ \E k \in DOMAIN usage_log : k[1] = id
    \/ \E i \in DOMAIN time_extensions : time_extensions[i].user_id = id

\* Storage.DeleteUser(id), called by apiDeleteUser: DELETE FROM users WHERE
\* id = ?. fk tells whether the connection that runs it enforces the FOREIGN
\* KEYs of usage_log and time_extensions, which fail the delete of a user
\* that rows refer to
DeleteUser(id, fk) ==
    /\ id \in DOMAIN users
    /\ IF fk /\ Referenced(id)
       THEN /\ calls' = << Call("DeleteUser", users[id].Username, id, 0, FALSE) >>
            /\ UNCHANGED users
       ELSE /\ calls' = << Call("DeleteUser", users[id].Username, id, 0, TRUE) >>
            /\ users' = [i \in DOMAIN users \ {id} |-> users[i]]
    /\ UNCHANGED <<now, usage_log, time_extensions, sessions, warningsSent,
                   activeSessions, lastCheck, runState, stopClosed, ctxDone, sent,
                   failures, pc, mu, frame, notifiers, ret>>

\* the cycles of Run statement by statement, and a request that deletes alice
DeleteNext ==
    \/ CheckEnter("run")
    \/ CheckSetLastCheck("run")
    \/ CheckReset("run")
    \/ CheckListUsers("run")
    \/ CheckListSessions("run")
    \/ CheckNextUser("run")
    \/ CheckTrack("run")
    \/ CheckRemaining("run")
    \/ CheckExpired("run")
    \/ CheckWarningsLock("run")
    \/ CheckInterval("run")
    \/ CheckSendWarning("run")
    \/ \E fk \in BOOLEAN : DeleteUser(1, fk)
    \/ \E d \in Deltas : Quiet /\ Advance(d)
    \/ Quiet /\ Login("alice")
    \/ Quiet /\ Logout("alice")

DeleteSpec == Init /\ [][DeleteNext]_vars

\* the cycle of Run is at a user it has listed whose record is gone
AtDeletedUser ==
    /\ pc["run"] \in {"GetRemainingMinutes", "SendLockNotice", "Sleep",
                      "LockUserSessions"}
    /\ CheckUserID("run") \notin DOMAIN users

\* the name under which the cycle of Run has listed the user it is at
ListedName == frame["run"].users[CheckUserID("run")].Username

\* C36: a check cycle that has listed an enabled logged-in user, whose record
\* is deleted before the cycle reads the remaining budget, gets 0 and no error
\* from GetRemainingMinutes and takes the time-expired path for this user:
\* SendLockNotice, the grace delay and LockUserSessions follow, each for the
\* name the cycle has listed.
C36_DeletedUserIsLocked ==
    [][AtDeletedUser /\ pc'["run"] # pc["run"] =>
         /\ pc["run"] = "GetRemainingMinutes" =>
               /\ calls' = << Call("GetRemainingMinutes", ListedName, 0, 0, TRUE) >>
               /\ pc'["run"] = "SendLockNotice"
         /\ pc["run"] = "SendLockNotice" =>
               /\ calls' = << Call("SendLockNotice", ListedName, 0, 0, TRUE) >>
               /\ pc'["run"] = "Sleep"
         /\ pc["run"] = "Sleep" => pc'["run"] = "LockUserSessions"
         /\ pc["run"] = "LockUserSessions" =>
               calls' = << Call("LockUserSessions", ListedName, 0, 0, TRUE) >>]_vars

\* LockUserSessions has been called for alice, whose record was deleted after
\* the cycle had listed her and for whom no usage at all is recorded
C36_Witness ==
    /\ calls = << Call("LockUserSessions", "alice", 0, 0, TRUE) >>
    /\ 1 \notin DOMAIN users
    /\ "alice" \in sessions
    /\ \A k \in DOMAIN usage_log : k[1] # 1

----------------------------------------------------------------------------
(* The time-expired path cycle after cycle.                                 *)

\* the cycle of this step read a remaining budget of 0 for username
ReadZero(username) ==
    \E i \in CallsOf("GetRemainingMinutes", username)' :
       calls'[i].ok /\ calls'[i].arg = 0

\* the cycle of this step called op for username once
CalledOnce(op, username) == Cardinality(CallsOf(op, username)') = 1

\* the cycle of this step called AddUsageTime for the user with the seconds
\* of elapsed, and the call, unless it failed, added them to today's usage
\* whatever the usage was
CreditedAgain(id) ==
    LET name == users[id].Username
        seconds == Seconds(Sub(now, lastCheck))
    IN  /\ CalledOnce("AddUsageTime", name)
        /\ \A i \in CallsOf("AddUsageTime", name)' :
              /\ calls'[i].arg = seconds
              /\ calls'[i].ok =>
                    GetTodayUsageSeconds(usage_log', id, now)
                      = GetTodayUsageSeconds(usage_log, id, now) + seconds

\* C37: the time-expired path is not de-duplicated and accrual is not capped.
\* Every cycle that reads remaining = 0 for an enabled logged-in user calls
\* SendLockNotice and LockUserSessions for the user once each and sends no
\* warning, whatever earlier cycles have done; and it has called AddUsageTime
\* with the seconds of elapsed before (when elapsed > 0), which are added to
\* today's usage although the budget is used up already.
C37_ExpiredPathRepeatsEveryCycle ==
    [][\A id \in DOMAIN users :
          CycleStep /\ ReadZero(users[id].Username) =>
             /\ users[id].Enabled
             /\ users[id].Username \in sessions
             /\ CalledOnce("SendLockNotice", users[id].Username)
             /\ CalledOnce("LockUserSessions", users[id].Username)
             /\ CallsOf("SendWarning", users[id].Username)' = {}
             /\ Sub(now, lastCheck) > 0 => CreditedAgain(id)]_vars

\* the seconds of today that this cycle has added for alice
CreditOfCycle ==
    SumCredited(calls, "alice")

\* alice had used up her budget of today before this cycle; the cycle has
\* credited further seconds to her and has locked her sessions once more, and
\* her used minutes are beyond the limit and the extensions
C37_Witness ==
    /\ CycleListed
    /\ \E i \in CallsOf("LockUserSessions", "alice") : calls[i].ok
    /\ CreditOfCycle \in 1 .. 2 * SecondsPerMinute
    /\ GetTodayUsageSeconds(usage_log, 1, now) < MaxDuration \div TicksPerSecond
    /\ (GetTodayUsageSeconds(usage_log, 1, now) - CreditOfCycle) \div SecondsPerMinute
          >= users[1].DailyLimitMins + GetTodayExtensions(time_extensions, 1, now)
    /\ GetTodayUsageSeconds(usage_log, 1, now) \div SecondsPerMinute
          > users[1].DailyLimitMins + GetTodayExtensions(time_extensions, 1, now)

----------------------------------------------------------------------------
(* ResetWarnings called by another goroutine while the loop of Run is       *)
(* inside a check cycle.                                                    *)

\* the minutes before midnight at which the scheduler is started
RaceWindowMinutes == 3

RaceStart == TicksPerDay - RaceWindowMinutes * SecondsPerMinute * TicksPerSecond

RaceInit ==
    /\ now = RaceStart
    /\ users = [id \in UserIDs |->
                  [Username |-> NameOrder[id],
                   DailyLimitMins |-> IF id = 1 THEN 2 ELSE 6,
                   Enabled |-> (id = 1)]]
    /\ usage_log = << >>
    /\ time_extensions = << >>
    /\ sessions = {}
    /\ warningsSent = << >>
    /\ activeSessions = << >>
    /\ lastCheck = ZeroTime
    /\ runState = "idle"
    /\ stopClosed = FALSE
    /\ ctxDone = FALSE
    /\ calls = << >>
    /\ sent = [k \in Usernames \X Thresholds |-> [date |-> 0, count |-> 0]]
    /\ failures = {}
    /\ pc = [g \in Goroutines |-> "idle"]
    /\ mu = ""
    /\ frame = [g \in Goroutines |-> NoFrame]
    /\ notifiers = << >>
    /\ ret = NoReturn

\* the cycles of Run statement by statement; ResetWarnings("alice") is
\* called at any moment; the clock and alice's sessions change between the
\* cycles
RaceNext ==
    \/ CheckEnter("run")
    \/ CheckSetLastCheck("run")
    \/ CheckReset("run")
    \/ CheckListUsers("run")
    \/ CheckListSessions("run")
    \/ CheckNextUser("run")
    \/ CheckTrack("run")
    \/ CheckRemaining("run")
    \/ CheckExpired("run")
    \/ CheckWarningsLock("run")
    \/ CheckInterval("run")
    \/ CheckSendWarning("run")
    \/ LockedResetWarnings("alice")
    \/ \E d \in BackDeltas : Quiet /\ Advance(d)
    \/ Quiet /\ Login("alice")
    \/ Quiet /\ Logout("alice")

RaceSpec == RaceInit /\ [][RaceNext]_vars

\* the loop of Run is inside checkWarnings, between s.mu.Lock() and the
\* deferred s.mu.Unlock()
InsidePass == pc["run"] \in {"interval", "SendWarning"}

\* the step is the mark of the threshold that the pass has just tested
MarksTestedThreshold ==
    LET name == frame["run"].users[CheckUserID("run")].Username
        interval == WarningIntervals[frame["run"].i]
    IN  /\ pc["run"] = "SendWarning"
        /\ interval \notin DedupSet(warningsSent, name)
        /\ frame["run"].remaining <= interval
        /\ warningsSent' = [warningsSent EXCEPT ![name] = @ \cup {interval}]

\* the thresholds for which a SendWarning was made for username today and
\* not forgotten by a ResetWarnings since
SentSinceReset(username) ==
    {t \in Thresholds : /\ sent[<<username, t>>].count > 0
                        /\ sent[<<username, t>>].date = Today(now)}

\* the pass that has returned has left no qualifying threshold unmarked
PassMarkedAll ==
    (pc["run"] = "interval" /\ pc'["run"] = "user") =>
       \A t \in Thresholds :
          frame["run"].remaining <= t
             => t \in DedupSet(warningsSent',
                               frame["run"].users[CheckUserID("run")].Username)

\* C38: ResetWarnings(u) and a warning evaluation for u exclude each other.
\* While the evaluation is between its Lock and its Unlock the dedup state
\* changes only by the mark of the threshold just tested, so a reset takes
\* effect before the first test or after the last mark; a pass that returns
\* has marked every qualifying threshold; and on the day of the start the
\* set of u holds exactly the thresholds sent since the latest reset: none
\* when the reset came after the pass, those sent in the pass when it came
\* before.
C38_ResetSerializedWithPass ==
    [][/\ InsidePass /\ warningsSent' # warningsSent => MarksTestedThreshold
       /\ PassMarkedAll
       /\ Today(now') = Today(RaceStart) =>
             DedupSet(warningsSent', "alice") = SentSinceReset("alice")']_vars

\* the pass with remaining 1 has sent the warning of threshold 5 again, which
\* a reset had cleared after the pass of an earlier cycle had marked it
C38_Witness ==
    /\ calls = << Call("SendWarning", "alice", 1, 5, TRUE) >>
    /\ mu = "run"
    /\ DedupSet(warningsSent, "alice") = {5}
    /\ Today(now) = Today(RaceStart)

----------------------------------------------------------------------------
(* Stop and the done signal of Run.                                         *)

\* a receive from a channel that is closed does not block: once Run has
\* returned and closed s.done, the <-s.done of Stop goes on
StopFairSpec == RunSpec /\ WF_vars(StopReturn)

\* Stop has closed s.stop and waits for s.done
StopWaiting == pc["stop"] = "waiting"

\* C39: Stop returns only when Run has been started and has returned: as
\* long as Run has not been started a Stop that was called stays in its wait
\* for the done signal, and it has never returned while Run is idle or
\* running; a Stop that waits after Run has returned (through the cancelled
\* context as well as through s.stop) returns.
C39_StopNeedsStartedRun ==
    /\ [](pc["stop"] = "returned" => runState = "returned")
    /\ [][StopWaiting /\ runState' = "idle" => StopWaiting']_vars
    /\ (StopWaiting /\ runState = "returned") ~> (pc["stop"] = "returned")

\* Stop was called on a scheduler whose Run has not been started and waits,
\* although the context is cancelled
C39_Witness ==
    /\ StopWaiting
    /\ runState = "idle"
    /\ stopClosed
    /\ ctxDone

----------------------------------------------------------------------------
(* The seconds credited against the time that has passed.                   *)

\* the step is a cycle after the first one of the scheduler
LaterCycle == CycleStep /\ lastCheck # ZeroTime

\* the cycle of this step finds the user enabled and logged in
Accruing(id) == users[id].Enabled /\ users[id].Username \in sessions

\* the seconds credited to the user by the cycle of this step are the whole
\* seconds of the time since the baseline: not more than that time, and less
\* than one second short of it
CreditIsTruncatedElapsed(id) ==
    LET credited == CreditedNow(users[id].Username)
    IN  /\ credited * TicksPerSecond <= now - lastCheck
        /\ now - lastCheck < (credited + 1) * TicksPerSecond
        /\ UsedOnAllDays(usage_log', id) = UsedOnAllDays(usage_log, id) + credited

\* the seconds recorded for the user, unless the first cycle has credited the
\* time since the zero time, are not more than the time since the start
TotalWithinWallClock(id) ==
    UsedOnAllDays(usage_log', id) < MaxDuration \div TicksPerSecond
       => UsedOnAllDays(usage_log', id) * TicksPerSecond <= now' - StartTime

(* C40 as stated: every cycle after the first credits to a logged-in user   *)
(* the time since the baseline truncated to whole seconds, so that the      *)
(* credit of every cycle is less than one second short of that time.        *)
C40_EveryCycleCreditsTruncatedElapsed ==
    [][\A id \in DOMAIN users :
          /\ LaterCycle => lastCheck' = now
          /\ LaterCycle /\ Accruing(id) => CreditIsTruncatedElapsed(id)
          /\ TotalWithinWallClock(id)]_vars

\* the cycle of this step obtained both lists and its AddUsageTime for the
\* user returned without an error
AccrualWorked(id) ==
    /\ CycleListed'
    /\ \A i \in CallsOf("AddUsageTime", users[id].Username)' : calls'[i].ok

\* C40: every check cycle after the first moves the baseline to its own
\* timestamp, and a cycle that obtains both lists and whose AddUsageTime
\* succeeds credits to an enabled logged-in user the time since the baseline
\* truncated to whole seconds: at most that time, and less than one second
\* short of it. A cycle that fails credits nothing and moves the baseline all
\* the same. In all, the seconds recorded for a user never exceed the time
\* that has passed since the start.
C40_WorkingCycleCreditsTruncatedElapsed ==
    [][\A id \in DOMAIN users :
          /\ LaterCycle => lastCheck' = now
          /\ LaterCycle /\ Accruing(id) /\ AccrualWorked(id)
                => CreditIsTruncatedElapsed(id)
          /\ LaterCycle /\ Accruing(id) /\ ~AccrualWorked(id)
                => CreditedNow(users[id].Username) = 0
          /\ TotalWithinWallClock(id)]_vars

\* a cycle half a minute and one tick after the one before has credited 30
\* seconds to alice: the half second is dropped
C40_Witness ==
    /\ CycleListed
    /\ \E i \in CallsOf("AddUsageTime", "alice") :
          /\ calls[i].ok
          /\ calls[i].arg = 30
          /\ calls[i].arg * TicksPerSecond < 30 * TicksPerSecond + 1
    /\ lastCheck = now

====
